---- MODULE Spec2Model ----
(***************************************************************************)
(* A model of RRgen's synthetic population-register generator:             *)
(*   - generate_temp_relatsionships (src/generation/temp_relationships.py) *)
(*   - generate_isikuaadress        (src/generation/isikuaadress.py)       *)
(*   - the helpers of src/generation/utils.py they call                    *)
(*   - generate_kodakondsus, generate_asutus, build_isik_asutus and the    *)
(*     document batches of generate_tables (src/generation/main.py)        *)
(*   - run of src/error_generation/main.py.                                *)
(*                                                                         *)
(* Dates are whole numbers.  Address-interval dates count days on an       *)
(* abstract axis 0..MaxDate; birth dates count years.  A null (None / NaT) *)
(* is the value None, which is below every date and every id.              *)
(* Every draw of the seeded generator is a nondeterministic choice.        *)
(* The model keeps the columns the properties below read.  The audit       *)
(* columns of the address history (LoodiKpv, MuudetiKpv, KustutatiKpv) are *)
(* kept when audit_columns is TRUE; the cosmetic columns (Sugu, Haridus,   *)
(* KOV, AsID) are left out.                                                *)
(***************************************************************************)
EXTENDS Integers, Sequences, FiniteSets, TLC

VARIABLES
    pc,                 \* position inside the running function
    n_people,           \* temp_relationships.py:7, the number of persons
    df_people,          \* the persons table (data_list / df_people / df_relationships)
    couples,            \* temp_relationships.py: list of (adult, partner) id pairs
    possible_addresses, \* the address pool handed to both generators
    arrival_domain,     \* the values the IsSaabusEesti / IsLahkusEestist columns hold
    final_address_map,  \* isikuaadress.py parameter: IsID -> final AdrID
    families,           \* family ids still to be processed by the groupby loop
    group,              \* IsIDs of the family being processed, in table order
    todo,               \* persons still to be visited by the current loop
    family_arrival,     \* isikuaadress.py:82
    family_departure,   \* isikuaadress.py:83
    person_history_map, \* isikuaadress.py:88
    all_records,        \* isikuaadress.py:69
    iadr_counter,       \* isikuaadress.py:70
    doc_id_counter,     \* isikuaadress.py:71
    dropped,            \* bookkeeping: IsIDs that lost an interval in step 5
    copied_from,        \* bookkeeping: child IsID -> parent whose timeline was copied
    df_history          \* the returned table

\* utils.py: the argument and result of adjust_timeline_for_death run on its own.
VARIABLES
    arg_timeline,       \* utils.py:72, timeline
    arg_death_date,     \* utils.py:72, death_date
    ret_updated         \* utils.py:117, the returned list

death_vars == <<arg_timeline, arg_death_date, ret_updated>>

\* kodakondsus.py: generate_kodakondsus
VARIABLES
    df_isik,            \* kodakondsus.py:7, the persons passed in
    kod_records,        \* kodakondsus.py:58, records
    kod_id_counter,     \* kodakondsus.py:59
    kod_doc_id_counter  \* kodakondsus.py:57, doc_id_counter

kod_vars == <<df_isik, kod_records, kod_id_counter, kod_doc_id_counter>>

\* asutus.py: generate_asutus and build_isik_asutus
VARIABLES
    as_df,              \* asutus.py:112, df
    as_data,            \* asutus.py:147, data
    ias_df,             \* asutus.py:232, df
    ias_records         \* asutus.py:240, records

as_vars == <<as_df, as_data, ias_df, ias_records>>

\* isikuaadress.py:296-329: whether the rows of the address history are followed
\* with the three columns LoodiKpv, MuudetiKpv and KustutatiKpv that step 6
\* writes; no other step reads or writes these columns.
VARIABLES audit_columns

audit_vars == <<audit_columns>>

\* main.py:87-141: the document batches of generate_tables
VARIABLES
    gen_df_iadr,          \* main.py:73, the columns of it that main.py:93-99 names
    gen_df_is,            \* main.py:85
    doc_batch,            \* main.py:121, the place in doc_definitions
    doc_rows,             \* temp_person_document.py:82, rows
    gpd_doc_id_counter,   \* temp_person_document.py:84, doc_id_counter
    main_doc_id_counter,  \* main.py:118, doc_id_counter
    doc_dfs,              \* main.py:119
    df_docs_isid12        \* main.py:141

doc_vars == <<gen_df_iadr, gen_df_is, doc_batch, doc_rows, gpd_doc_id_counter,
              main_doc_id_counter, doc_dfs, df_docs_isid12>>

\* main.py:241-247: two runs of generate_tables with the same seed
VARIABLES
    det_run,            \* the run that is executing, 1 or 2
    seeded_stream,      \* the values random gives after random.seed(seed), as far as read
    stream_pos,         \* how many of them were read since the last random.seed(seed)
    wall_clock,         \* the time datetime.now() last returned
    det_tables          \* main.py:146-156, the tables each run returned so far

det_vars == <<det_run, seeded_stream, stream_pos, wall_clock, det_tables>>

\* error_generation/main.py: run
VARIABLES
    selected_tests,     \* main.py:104, the argument, then the list of line 115
    run_queue,          \* main.py:119, what the for loop has still to visit
    run_log,            \* the case ids whose function was called, in order
    csv_saves           \* the files save_csv has written, in order

err_vars == <<selected_tests, run_queue, run_log, csv_saves>>

more_vars == <<death_vars, kod_vars, as_vars, audit_vars, doc_vars, det_vars, err_vars>>

vars == <<pc, n_people, df_people, couples, possible_addresses, arrival_domain, final_address_map, families, group, todo,
          family_arrival, family_departure, person_history_map, all_records,
          iadr_counter, doc_id_counter, dropped, copied_from, df_history, more_vars>>

None == 0 - 1

\* The variables of the functions that are not running.
DeathIdle ==
    /\ arg_timeline = <<>>
    /\ arg_death_date = None
    /\ ret_updated = <<>>

KodIdle ==
    /\ df_isik = <<>>
    /\ kod_records = <<>>
    /\ kod_id_counter = 1
    /\ kod_doc_id_counter = 0

AsIdle ==
    /\ as_df = <<>>
    /\ as_data = <<>>
    /\ ias_df = <<>>
    /\ ias_records = <<>>

AuditIdle == audit_columns = FALSE

DocIdle ==
    /\ gen_df_iadr = <<>>
    /\ gen_df_is = <<>>
    /\ doc_batch = 1
    /\ doc_rows = <<>>
    /\ gpd_doc_id_counter = 1
    /\ main_doc_id_counter = 1
    /\ doc_dfs = <<>>
    /\ df_docs_isid12 = <<>>

DetIdle ==
    /\ det_run = 1
    /\ seeded_stream = <<>>
    /\ stream_pos = 0
    /\ wall_clock = 0
    /\ det_tables = <<>>

ErrIdle ==
    /\ selected_tests = <<>>
    /\ run_queue = <<>>
    /\ run_log = <<>>
    /\ csv_saves = <<>>

MoreIdle ==
    /\ DeathIdle
    /\ KodIdle
    /\ AsIdle
    /\ AuditIdle
    /\ DocIdle
    /\ DetIdle
    /\ ErrIdle

(***************************************************************************)
(* Bounds of the model and parameter values of the modelled run.           *)
(***************************************************************************)
MaxDate == 3
earliest_date == 1
latest_date == 2
NRows == 2
min_address_count == 1
max_address_count == 2
ensure_new_address == TRUE

Dates == 0..MaxDate
NullableDates == Dates \cup {None}
AdrIDs == {possible_addresses[i] : i \in DOMAIN possible_addresses}

Min(S) == CHOOSE x \in S : \A y \in S : x <= y
Max(S) == CHOOSE x \in S : \A y \in S : x >= y

Taiskasvanu == "Taiskasvanu"
Laps == "Laps"

(***************************************************************************)
(* utils.py                                                                *)
(***************************************************************************)
\* The codebook: KdLyhikeNimi -> KdID.
df_kodifikaator ==
    [n \in {"KEHTIV", "KEHTETU", "ELUKOHT", "ENDINE ELUKOHT", "EE"} |->
        CASE n = "KEHTIV" -> 1
          [] n = "KEHTETU" -> 2
          [] n = "ELUKOHT" -> 3
          [] n = "ENDINE ELUKOHT" -> 4
          [] n = "EE" -> 5]

get_kdid_for_name(kd, short_name) ==
    IF short_name \in DOMAIN kd THEN kd[short_name] ELSE None

\* The set of dates random_date(start, end) can return.
random_date(start, end) ==
    LET s == IF start > end THEN end ELSE start
        e == IF start > end THEN start ELSE end
        delta == e - s
    IN  IF delta <= 0 THEN {s} ELSE {s + random_days : random_days \in 0..delta}

AdjustForDeathNoStatus(kd, timeline, death_date) ==
    IF death_date = None THEN timeline
    ELSE LET kept == SelectSeq(timeline, LAMBDA row : ~(row.IAdrKehtibAlatesKpv > death_date))
         IN  [i \in DOMAIN kept |->
                IF kept[i].IAdrKehtibKuniKpv = None \/ kept[i].IAdrKehtibKuniKpv > death_date
                THEN [kept[i] EXCEPT !.IAdrKehtibKuniKpv = death_date]
                ELSE kept[i]]

AdjustForDeathKeepOpen(kd, timeline, death_date) ==
    IF death_date = None THEN timeline
    ELSE LET kept == SelectSeq(timeline, LAMBDA row : ~(row.IAdrKehtibAlatesKpv > death_date))
         IN  [i \in DOMAIN kept |->
                IF kept[i].IAdrKehtibKuniKpv # None /\ kept[i].IAdrKehtibKuniKpv > death_date
                THEN [kept[i] EXCEPT !.IAdrKehtibKuniKpv = death_date,
                                     !.KdIDAadressiStaatus = get_kdid_for_name(kd, "KEHTETU"),
                                     !.KdIDAadressiLiik = get_kdid_for_name(kd, "ENDINE ELUKOHT")]
                ELSE kept[i]]

AdjustForDeathDropEqual(kd, timeline, death_date) ==
    IF death_date = None THEN timeline
    ELSE LET kept == SelectSeq(timeline, LAMBDA row : row.IAdrKehtibAlatesKpv < death_date)
         IN  [i \in DOMAIN kept |->
                IF kept[i].IAdrKehtibKuniKpv = None \/ kept[i].IAdrKehtibKuniKpv > death_date
                THEN [kept[i] EXCEPT !.IAdrKehtibKuniKpv = death_date,
                                     !.KdIDAadressiStaatus = get_kdid_for_name(kd, "KEHTETU"),
                                     !.KdIDAadressiLiik = get_kdid_for_name(kd, "ENDINE ELUKOHT")]
                ELSE kept[i]]

adjust_timeline_for_death(kd, timeline, death_date) ==
    IF death_date = None THEN timeline
    ELSE LET kdid_kehtetu == get_kdid_for_name(kd, "KEHTETU")
             kdid_endine_elukoht == get_kdid_for_name(kd, "ENDINE ELUKOHT")
             \* 1) skip periods that begin strictly after the death date
             updated == SelectSeq(timeline, LAMBDA row : ~(row.IAdrKehtibAlatesKpv > death_date))
         IN  \* 2) truncate a period that ends after the death date or is open
             [i \in DOMAIN updated |->
                IF updated[i].IAdrKehtibKuniKpv = None \/ updated[i].IAdrKehtibKuniKpv > death_date
                THEN [updated[i] EXCEPT !.IAdrKehtibKuniKpv = death_date,
                                        !.KdIDAadressiStaatus = kdid_kehtetu,
                                        !.KdIDAadressiLiik = kdid_endine_elukoht]
                ELSE updated[i]]

(***************************************************************************)
(* isikuaadress.py: generate_isikuaadress                                  *)
(***************************************************************************)
NewRecDocAhead(iadr, adr_id, pid, start, end, liik, staatus, doc) ==
    [IAdrID |-> iadr, AdrID |-> adr_id, IsID |-> pid,
     IAdrKehtibAlatesKpv |-> start, IAdrKehtibKuniKpv |-> end,
     KdIDAadressiLiik |-> liik, KdIDAadressiStaatus |-> staatus,
     DokIDAlus |-> doc + 1, IAdrIDJargmine |-> None, DokIDLopuAlus |-> None]

\* One row of the address history (isikuaadress.py:142-160, 212-230).
NewRec(iadr, adr_id, pid, start, end, liik, staatus, doc) ==
    [IAdrID |-> iadr, AdrID |-> adr_id, IsID |-> pid,
     IAdrKehtibAlatesKpv |-> start, IAdrKehtibKuniKpv |-> end,
     KdIDAadressiLiik |-> liik, KdIDAadressiStaatus |-> staatus,
     DokIDAlus |-> doc, IAdrIDJargmine |-> None, DokIDLopuAlus |-> None]

\* Link consecutive periods (isikuaadress.py:169-171); the last row is left as it is.
LinkInitial(timeline) ==
    [i \in DOMAIN timeline |->
        IF i < Len(timeline)
        THEN [timeline[i] EXCEPT !.IAdrIDJargmine = timeline[i + 1].IAdrID,
                                 !.DokIDLopuAlus = timeline[i + 1].DokIDAlus]
        ELSE timeline[i]]

\* isikuaadress.py:112-117: the end dates a non-final period can get.
PeriodEnds(current_start) ==
    {IF period_end < current_start THEN current_start + 1 ELSE period_end :
        period_end \in random_date(current_start, latest_date)}

\* isikuaadress.py:119-129: the addresses a period can get.
AddressChoices(pid, is_last, previous_adr) ==
    IF is_last THEN {final_address_map[pid]}
    ELSE IF ensure_new_address /\ previous_adr # None
         THEN LET candidates == {a \in AdrIDs : a # previous_adr}
              IN  IF candidates = {} THEN AdrIDs ELSE candidates
         ELSE AdrIDs

\* isikuaadress.py:131-137
StatusOf(period_end) ==
    IF period_end = None THEN get_kdid_for_name(df_kodifikaator, "KEHTIV")
    ELSE get_kdid_for_name(df_kodifikaator, "KEHTETU")

LiikOf(period_end) ==
    IF period_end = None THEN get_kdid_for_name(df_kodifikaator, "ELUKOHT")
    ELSE get_kdid_for_name(df_kodifikaator, "ENDINE ELUKOHT")

NextStartSameDay(period_end, current_start) ==
    IF period_end # None THEN period_end ELSE current_start

\* isikuaadress.py:165-166: the next period starts the day after this one ends.
NextStart(period_end, current_start) ==
    IF period_end # None THEN period_end + 1 ELSE current_start

\* isikuaadress.py:109-166: every list of periods the loop can build from period idx on.
RECURSIVE BuildPeriods(_, _, _, _, _, _, _)
BuildPeriods(pid, idx, address_count, current_start, previous_adr, iadr, doc) ==
    IF idx >= address_count THEN {<<>>}
    ELSE LET is_last == (idx = address_count - 1)
             ends == IF is_last THEN {None} ELSE PeriodEnds(current_start)
         IN  UNION {
               UNION {
                 {<<NewRec(iadr, adr_id, pid, current_start, period_end,
                           LiikOf(period_end), StatusOf(period_end), doc)>> \o rest :
                    rest \in BuildPeriods(pid, idx + 1, address_count,
                                NextStart(period_end, current_start),
                                adr_id, iadr + 1, doc + 1)}
                 : adr_id \in AddressChoices(pid, is_last, previous_adr)}
               : period_end \in ends}

\* One row of the persons table.
PersonRow(staatus, vanemad, surmaaeg, pere) ==
    [VanuseStaatus |-> staatus, Suhteseis |-> None, PartneriID |-> None,
     Lapsed |-> <<>>, Vanemad |-> vanemad, Synniaeg |-> None,
     Surmaaeg |-> surmaaeg, Aadress |-> None, PerekonnaID |-> pere]

Range(seq) == {seq[i] : i \in DOMAIN seq}

\* The ids of a set, as a list in ascending order (table order).
RECURSIVE SortedSeq(_)
SortedSeq(S) == IF S = {} THEN <<>> ELSE <<Min(S)>> \o SortedSeq(S \ {Min(S)})

\* isikuaadress.py:74: groupby sorts the family ids.
FamilyIds(df) == SortedSeq({df[p].PerekonnaID : p \in DOMAIN df})

\* isikuaadress.py:76: the rows of one family, in table order.
GroupOf(df, family_id) == SortedSeq({p \in DOMAIN df : df[p].PerekonnaID = family_id})

\* isikuaadress.py:82
FamilyArrival(arrival_dates) ==
    IF arrival_dates # {} THEN Min(arrival_dates) ELSE None

\* isikuaadress.py:83
FamilyDeparture(departure_dates) ==
    IF departure_dates # {} THEN Max(departure_dates) ELSE None

\* isikuaadress.py:80-81: the non-null values a date column of the family's rows
\* can hold.
NotNullValues(grp) ==
    {S \in SUBSET (arrival_domain \ {None}) : Cardinality(S) <= Len(grp)}

\* isikuaadress.py:76-89: the loop takes the next family and derives its bounds.
\* The IsSaabusEesti / IsLahkusEestist columns of the family are read here.
NextFamily ==
    /\ pc = "ia_family"
    /\ families # <<>>
    /\ LET family_id == Head(families)
           grp == GroupOf(df_people, family_id)
           adults == SelectSeq(grp, LAMBDA p : df_people[p].VanuseStaatus = Taiskasvanu)
           children == SelectSeq(grp, LAMBDA p : df_people[p].VanuseStaatus = Laps)
       IN  /\ group' = grp
           /\ todo' = adults \o children
           /\ \E arrival_dates \in NotNullValues(grp), departure_dates \in NotNullValues(grp) :
                /\ family_arrival' = FamilyArrival(arrival_dates)
                /\ family_departure' = FamilyDeparture(departure_dates)
    /\ person_history_map' = <<>>
    /\ pc' = "ia_build"
    /\ UNCHANGED <<more_vars, n_people, df_people, couples, possible_addresses, arrival_domain, final_address_map, families,
                   all_records, iadr_counter, doc_id_counter, dropped, copied_from,
                   df_history>>

\* isikuaadress.py:94-100: an adult without a final address gets no timeline.
SkipAdult ==
    /\ pc = "ia_build"
    /\ todo # <<>>
    /\ LET pid == Head(todo)
       IN  /\ df_people[pid].VanuseStaatus = Taiskasvanu
           /\ pid \notin DOMAIN final_address_map
           /\ person_history_map' = (pid :> <<>>) @@ person_history_map
    /\ todo' = Tail(todo)
    /\ UNCHANGED <<pc, more_vars, n_people, df_people, couples, possible_addresses, arrival_domain, final_address_map, families,
                   group, family_arrival, family_departure, all_records, iadr_counter,
                   doc_id_counter, dropped, copied_from, df_history>>

\* isikuaadress.py:94-176: the timeline of one adult, death truncation included,
\* when the parameter max_address_count has the value max_count.
BuildAdultUpTo(max_count) ==
    /\ pc = "ia_build"
    /\ todo # <<>>
    /\ LET pid == Head(todo)
       IN  /\ df_people[pid].VanuseStaatus = Taiskasvanu
           /\ pid \in DOMAIN final_address_map
           /\ \E address_count \in min_address_count..max_count :
                \E tl \in BuildPeriods(pid, 0, address_count, earliest_date, None,
                                       iadr_counter, doc_id_counter) :
                   /\ person_history_map' =
                        (pid :> adjust_timeline_for_death(df_kodifikaator, LinkInitial(tl),
                                                          df_people[pid].Surmaaeg))
                        @@ person_history_map
                   /\ iadr_counter' = iadr_counter + address_count
                   /\ doc_id_counter' = doc_id_counter + address_count
    /\ todo' = Tail(todo)
    /\ UNCHANGED <<pc, more_vars, n_people, df_people, couples, possible_addresses, arrival_domain, final_address_map, families,
                   group, family_arrival, family_departure, all_records, dropped,
                   copied_from, df_history>>

BuildAdult == BuildAdultUpTo(max_address_count)

\* isikuaadress.py:205-237: the copy of a parent's timeline for a child.
CopyTimeline(parent_timeline, child_id, iadr, doc) ==
    LET copy == [idx \in DOMAIN parent_timeline |->
                    NewRec(iadr + idx - 1, parent_timeline[idx].AdrID, child_id,
                           parent_timeline[idx].IAdrKehtibAlatesKpv,
                           parent_timeline[idx].IAdrKehtibKuniKpv,
                           parent_timeline[idx].KdIDAadressiLiik,
                           parent_timeline[idx].KdIDAadressiStaatus,
                           doc + idx - 1)]
    IN  LinkInitial(copy)

\* isikuaadress.py:181-241: the timeline of one child.  The result is the pair
\* <<parent copied from (or None), timeline>>.
ChildOutcomes(child_id) ==
    LET parent_ids == df_people[child_id].Vanemad
        death_date_child == df_people[child_id].Surmaaeg
        from(parent) ==
            <<parent,
              adjust_timeline_for_death(df_kodifikaator,
                  CopyTimeline(person_history_map[parent], child_id,
                               iadr_counter, doc_id_counter),
                  death_date_child),
              Len(person_history_map[parent])>>
    IN  IF parent_ids = <<>> THEN {<<None, <<>>, 0>>}
        ELSE UNION {
               IF chosen_parent_id \in DOMAIN person_history_map
               THEN {from(chosen_parent_id)}
               ELSE LET alt_par == {p \in Range(parent_ids) : p \in DOMAIN person_history_map}
                    IN  IF alt_par # {} THEN {from(p) : p \in alt_par}
                        ELSE {<<None, <<>>, 0>>}
               : chosen_parent_id \in Range(parent_ids)}

CopyChild ==
    /\ pc = "ia_build"
    /\ todo # <<>>
    /\ LET child_id == Head(todo)
       IN  /\ df_people[child_id].VanuseStaatus = Laps
           /\ \E out \in ChildOutcomes(child_id) :
                /\ person_history_map' = (child_id :> out[2]) @@ person_history_map
                /\ copied_from' = (child_id :> out[1]) @@ copied_from
                /\ iadr_counter' = iadr_counter + out[3]
                /\ doc_id_counter' = doc_id_counter + out[3]
    /\ todo' = Tail(todo)
    /\ UNCHANGED <<pc, more_vars, n_people, df_people, couples, possible_addresses, arrival_domain, final_address_map, families,
                   group, family_arrival, family_departure, all_records, dropped,
                   df_history>>

\* isikuaadress.py:251-254: raise the first period's start to the family arrival.
ApplyArrival(tml) ==
    IF family_arrival # None /\ Len(tml) > 0
    THEN IF tml[1].IAdrKehtibAlatesKpv < family_arrival
         THEN [tml EXCEPT ![1].IAdrKehtibAlatesKpv = family_arrival]
         ELSE tml
    ELSE tml

ApplyDepartureNoStatus(tml) ==
    IF family_departure # None /\ Len(tml) > 0
    THEN LET last_p == tml[Len(tml)]
         IN  IF last_p.IAdrKehtibKuniKpv = None \/ last_p.IAdrKehtibKuniKpv > family_departure
             THEN [tml EXCEPT ![Len(tml)].IAdrKehtibKuniKpv = family_departure]
             ELSE tml
    ELSE tml

ApplyDepartureKeepOpen(tml) ==
    IF family_departure # None /\ Len(tml) > 0
    THEN LET last_p == tml[Len(tml)]
         IN  IF last_p.IAdrKehtibKuniKpv # None /\ last_p.IAdrKehtibKuniKpv > family_departure
             THEN [tml EXCEPT
                     ![Len(tml)].IAdrKehtibKuniKpv = family_departure,
                     ![Len(tml)].KdIDAadressiStaatus =
                         get_kdid_for_name(df_kodifikaator, "KEHTETU"),
                     ![Len(tml)].KdIDAadressiLiik =
                         get_kdid_for_name(df_kodifikaator, "ENDINE ELUKOHT")]
             ELSE tml
    ELSE tml

\* isikuaadress.py:256-261: cut the last period at the family departure.
ApplyDeparture(tml) ==
    IF family_departure # None /\ Len(tml) > 0
    THEN LET last_p == tml[Len(tml)]
         IN  IF last_p.IAdrKehtibKuniKpv = None \/ last_p.IAdrKehtibKuniKpv > family_departure
             THEN [tml EXCEPT
                     ![Len(tml)].IAdrKehtibKuniKpv = family_departure,
                     ![Len(tml)].KdIDAadressiStaatus =
                         get_kdid_for_name(df_kodifikaator, "KEHTETU"),
                     ![Len(tml)].KdIDAadressiLiik =
                         get_kdid_for_name(df_kodifikaator, "ENDINE ELUKOHT")]
             ELSE tml
    ELSE tml

\* isikuaadress.py:246-261: step 4, over every person of the family.
ApplyFamilyBounds ==
    /\ pc = "ia_build"
    /\ todo = <<>>
    /\ person_history_map' =
         [pid \in DOMAIN person_history_map |->
            ApplyDeparture(ApplyArrival(person_history_map[pid]))]
    /\ pc' = "ia_remove"
    /\ UNCHANGED <<more_vars, n_people, df_people, couples, possible_addresses, arrival_domain, final_address_map, families,
                   group, todo, family_arrival, family_departure, all_records,
                   iadr_counter, doc_id_counter, dropped, copied_from, df_history>>

RemoveNothingAndRelink(timeline) ==
    [i \in DOMAIN timeline |->
        IF i < Len(timeline)
        THEN [timeline[i] EXCEPT !.IAdrIDJargmine = timeline[i + 1].IAdrID,
                                 !.DokIDLopuAlus = timeline[i + 1].DokIDAlus]
        ELSE [timeline[i] EXCEPT !.IAdrIDJargmine = None, !.DokIDLopuAlus = None]]

RemoveInvalidAndUnlink(timeline) ==
    LET fixed == SelectSeq(timeline,
                    LAMBDA rec : ~(rec.IAdrKehtibKuniKpv # None
                                   /\ rec.IAdrKehtibAlatesKpv > rec.IAdrKehtibKuniKpv))
    IN  [i \in DOMAIN fixed |->
            [fixed[i] EXCEPT !.IAdrIDJargmine = None, !.DokIDLopuAlus = None]]

\* isikuaadress.py:266-284
remove_invalid_and_relink(timeline) ==
    LET fixed == SelectSeq(timeline,
                    LAMBDA rec : ~(rec.IAdrKehtibKuniKpv # None
                                   /\ rec.IAdrKehtibAlatesKpv > rec.IAdrKehtibKuniKpv))
    IN  [i \in DOMAIN fixed |->
            IF i < Len(fixed)
            THEN [fixed[i] EXCEPT !.IAdrIDJargmine = fixed[i + 1].IAdrID,
                                  !.DokIDLopuAlus = fixed[i + 1].DokIDAlus]
            ELSE [fixed[i] EXCEPT !.IAdrIDJargmine = None, !.DokIDLopuAlus = None]]

\* isikuaadress.py:286-291: step 5, over every person of the family.
RemoveInvalid ==
    /\ pc = "ia_remove"
    /\ person_history_map' =
         [pid \in DOMAIN person_history_map |->
            remove_invalid_and_relink(person_history_map[pid])]
    /\ dropped' = dropped \cup
         {pid \in DOMAIN person_history_map :
            Len(remove_invalid_and_relink(person_history_map[pid]))
               < Len(person_history_map[pid])}
    /\ pc' = "ia_audit"
    /\ UNCHANGED <<more_vars, n_people, df_people, couples, possible_addresses, arrival_domain, final_address_map, families,
                   group, todo, family_arrival, family_departure, all_records,
                   iadr_counter, doc_id_counter, copied_from, df_history>>

AuditedRowsIgnoreDeleted(row_) ==
    LET en_ == row_.IAdrKehtibKuniKpv
        st_ == IF row_.IAdrKehtibAlatesKpv = None \/ row_.IAdrKehtibAlatesKpv < earliest_date
               THEN earliest_date ELSE row_.IAdrKehtibAlatesKpv
    IN  UNION { UNION {
          { row_ @@ [LoodiKpv |-> loodi, MuudetiKpv |-> muudeti, KustutatiKpv |-> kustutati] :
              muudeti \in {None} \cup
                 (LET upper_ == IF en_ > loodi THEN en_ ELSE loodi
                  IN  IF en_ # None
                      THEN (IF upper_ < latest_date
                            THEN random_date(upper_, latest_date) ELSE {})
                      ELSE random_date(loodi, latest_date)) }
          : kustutati \in {None} \cup
               (IF en_ # None THEN random_date(en_, latest_date) ELSE {}) }
          : loodi \in random_date(earliest_date, st_) }

AuditedRowsCreatedLate(row_) ==
    LET en_ == row_.IAdrKehtibKuniKpv
    IN  UNION { UNION {
          { row_ @@ [LoodiKpv |-> loodi, MuudetiKpv |-> muudeti, KustutatiKpv |-> kustutati] :
              muudeti \in {None} \cup
                 (LET new_latest_date == IF kustutati # None THEN kustutati ELSE latest_date
                      upper_ == IF en_ > loodi THEN en_ ELSE loodi
                  IN  IF en_ # None
                      THEN (IF upper_ < new_latest_date
                            THEN random_date(upper_, new_latest_date) ELSE {})
                      ELSE random_date(loodi, new_latest_date)) }
          : kustutati \in {None} \cup
               (IF en_ # None THEN random_date(en_, latest_date) ELSE {}) }
          : loodi \in random_date(earliest_date, latest_date) }

\* isikuaadress.py:297-327: the rows step 6 can make of one row.
AuditedRows(row_) ==
    LET en_ == row_.IAdrKehtibKuniKpv
        \* 303-305
        st_ == IF row_.IAdrKehtibAlatesKpv = None \/ row_.IAdrKehtibAlatesKpv < earliest_date
               THEN earliest_date ELSE row_.IAdrKehtibAlatesKpv
    IN  UNION { UNION {
          { row_ @@ [LoodiKpv |-> loodi, MuudetiKpv |-> muudeti, KustutatiKpv |-> kustutati] :
              muudeti \in {None} \cup
                 (LET new_latest_date == IF kustutati # None THEN kustutati ELSE latest_date
                      upper_ == IF en_ > loodi THEN en_ ELSE loodi
                  IN  IF en_ # None
                      \* 316-321
                      THEN (IF upper_ < new_latest_date
                            THEN random_date(upper_, new_latest_date) ELSE {})
                      \* 322-327
                      ELSE random_date(loodi, new_latest_date)) }
          \* 308-313
          : kustutati \in {None} \cup
               (IF en_ # None THEN random_date(en_, latest_date) ELSE {}) }
          \* 306
          : loodi \in random_date(earliest_date, st_) }

\* isikuaadress.py:297-329: the timelines assign_dates_final can return.
RECURSIVE assign_dates_final(_)
assign_dates_final(timeline) ==
    IF timeline = <<>> THEN {<<>>}
    ELSE {<<row_>> \o rest : row_ \in AuditedRows(Head(timeline)),
                              rest \in assign_dates_final(Tail(timeline))}

\* isikuaadress.py:331-336: step 6, over every person of the family.
AssignDatesFinal ==
    /\ pc = "ia_audit"
    /\ IF audit_columns
       THEN \E tml \in [DOMAIN person_history_map ->
                          UNION {assign_dates_final(person_history_map[pid]) :
                                   pid \in DOMAIN person_history_map}] :
              /\ \A pid \in DOMAIN person_history_map :
                    tml[pid] \in assign_dates_final(person_history_map[pid])
              /\ person_history_map' = tml
       ELSE UNCHANGED person_history_map
    /\ pc' = "ia_collect"
    /\ UNCHANGED <<more_vars, n_people, df_people, couples, possible_addresses, arrival_domain, final_address_map, families,
                   group, todo, family_arrival, family_departure, all_records,
                   iadr_counter, doc_id_counter, dropped, copied_from, df_history>>

RECURSIVE Concat(_, _)
Concat(pids, hist) ==
    IF pids = <<>> THEN <<>>
    ELSE (IF Head(pids) \in DOMAIN hist THEN hist[Head(pids)] ELSE <<>>)
         \o Concat(Tail(pids), hist)

\* isikuaadress.py:339-340: the family's rows join all_records; the loop goes on.
Collect ==
    /\ pc = "ia_collect"
    /\ all_records' = all_records \o Concat(group, person_history_map)
    /\ families' = Tail(families)
    /\ pc' = IF Tail(families) = <<>> THEN "ia_renumber" ELSE "ia_family"
    /\ UNCHANGED <<more_vars, n_people, df_people, couples, possible_addresses, arrival_domain, final_address_map, group, todo,
                   family_arrival, family_departure, person_history_map, iadr_counter,
                   doc_id_counter, dropped, copied_from, df_history>>

\* isikuaadress.py:353-354: the place of a row in the table sorted by IAdrID,
\* which is the new id that id_map gives to its old id.
NewId(rows, old_id) ==
    1 + Cardinality({i \in DOMAIN rows : rows[i].IAdrID < old_id})

\* isikuaadress.py:353: sort_values("IAdrID")
SortByIAdrID(rows) ==
    [k \in DOMAIN rows |->
        rows[CHOOSE i \in DOMAIN rows : NewId(rows, rows[i].IAdrID) = k]]

MapIdKeepOld(rows, x) == x

\* isikuaadress.py:357-366: a column is mapped through id_map; an id that is no
\* key of id_map becomes null.
MapId(rows, x) ==
    IF x = None THEN None
    ELSE IF \E i \in DOMAIN rows : rows[i].IAdrID = x THEN NewId(rows, x) ELSE None

\* isikuaadress.py:342-368: the table is built, sorted and renumbered.  An empty
\* list of records gives a table without columns, and sort_values("IAdrID")
\* raises KeyError.
Renumber ==
    /\ pc = "ia_renumber"
    /\ IF all_records = <<>>
       THEN /\ pc' = "KeyError"
            /\ UNCHANGED df_history
       ELSE /\ df_history' =
                 [k \in DOMAIN all_records |->
                    [SortByIAdrID(all_records)[k] EXCEPT
                       !.IAdrID = MapId(all_records, @),
                       !.DokIDAlus = MapId(all_records, @),
                       !.IAdrIDJargmine = MapId(all_records, @),
                       !.DokIDLopuAlus = MapId(all_records, @)]]
            /\ pc' = "ia_done"
    /\ UNCHANGED <<more_vars, n_people, df_people, couples, possible_addresses, arrival_domain,
                   final_address_map, families, group, todo, family_arrival,
                   family_departure, person_history_map, all_records, iadr_counter,
                   doc_id_counter, dropped, copied_from>>

(***************************************************************************)
(* temp_relationships.py: generate_temp_relatsionships                     *)
(* Steps 9, 10 and 13-15 (Haridus, Kodakondsus and the arrival columns,    *)
(* KOV, AsID) and the Surmaaeg draws fill columns this model leaves out.   *)
(***************************************************************************)
NPeople == 3
NPipe == 2
now == 100
MaxAdultAge == 100
MinAdultAge == 18
min_age_for_parenthood == 18
MaxChildAge == 17
AdultChildAge == 18

all_ids == 1..n_people

Vallaline == "Vallaline"
Abielus == "Abielus"
Lahutatud == "Lahutatud"
marital_status_choices == {Vallaline, Abielus, Lahutatud}

\* The two extreme dates random_date(start, end) can return: the birth dates
\* of the model are drawn from the ends of their range.
random_date_ends(start, end) ==
    {Min(random_date(start, end)), Max(random_date(start, end))}

AdultsOf(df) == SelectSeq(SortedSeq(DOMAIN df), LAMBDA p : df[p].VanuseStaatus = Taiskasvanu)
ChildrenOf(df) == SelectSeq(SortedSeq(DOMAIN df), LAMBDA p : df[p].VanuseStaatus = Laps)

\* temp_relationships.py:88-108: the base records.
BaseRecords ==
    /\ pc = "rel_start"
    /\ \E status \in [all_ids -> {Taiskasvanu, Laps}] :
         df_people' = [person_id \in all_ids |-> PersonRow(status[person_id], <<>>, None, None)]
    /\ pc' = "rel_marital"
    /\ UNCHANGED <<more_vars, n_people, couples, possible_addresses, arrival_domain, final_address_map, families,
                   group, todo, family_arrival, family_departure, person_history_map,
                   all_records, iadr_counter, doc_id_counter, dropped, copied_from,
                   df_history>>

\* temp_relationships.py:113-117: marital status.
MaritalStatus ==
    /\ pc = "rel_marital"
    /\ \E choice \in [all_ids -> marital_status_choices] :
         /\ \A p \in all_ids : df_people[p].VanuseStaatus = Laps => choice[p] = Vallaline
         /\ df_people' = [p \in all_ids |-> [df_people[p] EXCEPT !.Suhteseis = choice[p]]]
    /\ pc' = "rel_couples"
    /\ UNCHANGED <<more_vars, n_people, couples, possible_addresses, arrival_domain, final_address_map, families,
                   group, todo, family_arrival, family_departure, person_history_map,
                   all_records, iadr_counter, doc_id_counter, dropped, copied_from,
                   df_history>>

\* temp_relationships.py:122-123
has_partner(df, person) == df[person].PartneriID # None

RECURSIVE PairUpOneWay(_, _, _)
PairUpOneWay(df, potential_partners, i) ==
    IF i > Len(potential_partners) - 1 THEN df
    ELSE LET p1 == potential_partners[i]
             free == {j \in (i + 1)..Len(potential_partners) :
                        ~has_partner(df, potential_partners[j])}
         IN  IF ~has_partner(df, p1) /\ free # {}
             THEN PairUpOneWay([df EXCEPT ![p1].PartneriID = potential_partners[Min(free)]],
                               potential_partners, i + 1)
             ELSE PairUpOneWay(df, potential_partners, i + 1)

\* temp_relationships.py:132-140: the greedy matching over the shuffled list,
\* from (0-based) position i - 1 on.
RECURSIVE PairUp(_, _, _)
PairUp(df, potential_partners, i) ==
    IF i > Len(potential_partners) - 1 THEN df
    ELSE LET p1 == potential_partners[i]
             free == {j \in (i + 1)..Len(potential_partners) :
                        ~has_partner(df, potential_partners[j])}
         IN  IF ~has_partner(df, p1) /\ free # {}
             THEN LET p2 == potential_partners[Min(free)]
                  IN  PairUp([df EXCEPT ![p1].PartneriID = p2, ![p2].PartneriID = p1],
                             potential_partners, i + 1)
             ELSE PairUp(df, potential_partners, i + 1)

\* The orders random.shuffle can leave a list in.
Shuffles(seq) ==
    {s \in [DOMAIN seq -> Range(seq)] : \A x \in Range(seq) : \E i \in DOMAIN s : s[i] = x}

\* temp_relationships.py:126-140: married couples are formed.
FormCouples ==
    /\ pc = "rel_couples"
    /\ LET married == SelectSeq(SortedSeq(DOMAIN df_people),
                         LAMBDA p : df_people[p].VanuseStaatus = Taiskasvanu
                                    /\ df_people[p].Suhteseis = Abielus)
       IN  \E potential_partners \in Shuffles(married) :
              df_people' = PairUp(df_people, potential_partners, 1)
    /\ pc' = "rel_identify"
    /\ UNCHANGED <<more_vars, n_people, couples, possible_addresses, arrival_domain, final_address_map, families,
                   group, todo, family_arrival, family_departure, person_history_map,
                   all_records, iadr_counter, doc_id_counter, dropped, copied_from,
                   df_history>>

\* temp_relationships.py:149-155: the couples, as (adult, partner) with the
\* smaller id first.
CouplesOf(df) ==
    LET firsts == SelectSeq(AdultsOf(df),
                    LAMBDA a : df[a].PartneriID # None /\ a < df[a].PartneriID
                               /\ df[a].PartneriID \in DOMAIN df)
    IN  [k \in DOMAIN firsts |-> <<firsts[k], df[firsts[k]].PartneriID>>]

IdentifyCouples ==
    /\ pc = "rel_identify"
    /\ couples' = CouplesOf(df_people)
    /\ pc' = "rel_parents"
    /\ UNCHANGED <<more_vars, n_people, df_people, possible_addresses, arrival_domain, final_address_map,
                   families, group, todo, family_arrival, family_departure,
                   person_history_map, all_records, iadr_counter, doc_id_counter, dropped,
                   copied_from, df_history>>

ParentChoicesAnyPair(df, the_couples) ==
    LET adults == Range(AdultsOf(df))
    IN  {<<a, b>> : a \in adults, b \in adults}
        \cup {<<a>> : a \in adults}
        \cup (IF the_couples = <<>> \/ adults = {} THEN {<<>>} ELSE {})

\* temp_relationships.py:161-171: the parent lists one child can get.
ParentChoices(df, the_couples) ==
    LET adults == Range(AdultsOf(df))
    IN  {the_couples[k] : k \in DOMAIN the_couples}           \* num_parents = 2
        \cup {<<a>> : a \in adults}                             \* num_parents = 1
        \cup (IF the_couples = <<>> \/ adults = {} THEN {<<>>} ELSE {})

\* temp_relationships.py:160-171: children are assigned to 1 or 2 parents; a
\* parent's child list grows in the order of the children.
AssignParents ==
    /\ pc = "rel_parents"
    /\ LET children == Range(ChildrenOf(df_people))
       IN  \E parents \in [children -> ParentChoices(df_people, couples)] :
              df_people' =
                [p \in DOMAIN df_people |->
                   IF p \in children
                   THEN [df_people[p] EXCEPT !.Vanemad = parents[p]]
                   ELSE [df_people[p] EXCEPT !.Lapsed =
                           SelectSeq(ChildrenOf(df_people),
                                     LAMBDA c : p \in Range(parents[c]))]]
    /\ pc' = "rel_births"
    /\ UNCHANGED <<more_vars, n_people, couples, possible_addresses, arrival_domain, final_address_map, families,
                   group, todo, family_arrival, family_departure, person_history_map,
                   all_records, iadr_counter, doc_id_counter, dropped, copied_from,
                   df_history>>

\* temp_relationships.py:189-205: the birth dates one child can get.
ChildBirthDates(df, child) ==
    LET parents == df[child].Vanemad
    IN  IF parents # <<>> /\ parents[1] \in DOMAIN df /\ df[parents[1]].Synniaeg # None
        THEN LET first == df[parents[1]].Synniaeg + min_age_for_parenthood
                 earliest_child_bd == IF first > now THEN now - 1 ELSE first
             IN  random_date_ends(Min({earliest_child_bd, now - 1}),
                                  Max({earliest_child_bd, now - 1}))
        ELSE {now - k : k \in {1, MaxChildAge}}

\* temp_relationships.py:177-209: birth dates of the adults, then of the children.
\* The draws that give a person a death date (183-184, 208-209) or arrival and
\* departure dates (224-237, 351-369) are taken to fall on the side that gives
\* none: the persons of SpecRel and SpecPipe are alive and never moved abroad.
AssignBirthDates ==
    /\ pc = "rel_births"
    /\ LET adults == Range(AdultsOf(df_people))
           children == Range(ChildrenOf(df_people))
           earliest_adult == now - MaxAdultAge
           latest_adult == now - MinAdultAge
       IN  \E birth_date \in [adults -> random_date_ends(earliest_adult, latest_adult)] :
              LET with_adults == [p \in DOMAIN df_people |->
                                    IF p \in adults
                                    THEN [df_people[p] EXCEPT !.Synniaeg = birth_date[p]]
                                    ELSE df_people[p]]
              IN  \E child_bd \in [children ->
                                      UNION {ChildBirthDates(with_adults, c) : c \in children}] :
                     /\ \A c \in children : child_bd[c] \in ChildBirthDates(with_adults, c)
                     /\ df_people' = [p \in DOMAIN df_people |->
                                        IF p \in children
                                        THEN [with_adults[p] EXCEPT !.Synniaeg = child_bd[p]]
                                        ELSE with_adults[p]]
    /\ pc' = "rel_family"
    /\ UNCHANGED <<more_vars, n_people, couples, possible_addresses, arrival_domain, final_address_map, families,
                   group, todo, family_arrival, family_departure, person_history_map,
                   all_records, iadr_counter, doc_id_counter, dropped, copied_from,
                   df_history>>

BfsPartnerOnly(df, queue_list, visited_set) ==
    LET start_id == Head(queue_list)
    IN  {start_id} \cup (IF df[start_id].PartneriID # None
                         THEN {df[start_id].PartneriID} ELSE {})

\* temp_relationships.py:245-266: bfs_collect, from the state of its while loop.
\* (In the table a null partner may read as NaN, which is "not None": it is
\* queued, matches no row and is skipped, so it adds no person.)
RECURSIVE bfs_collect(_, _, _)
bfs_collect(df, queue_list, visited_set) ==
    IF queue_list = <<>> THEN visited_set
    ELSE LET current == Head(queue_list)
             rest == Tail(queue_list)
         IN  IF current \notin visited_set
             THEN IF current \notin DOMAIN df
                  THEN bfs_collect(df, rest, visited_set \cup {current})
                  ELSE LET row_ == df[current]
                           partner == IF row_.PartneriID # None
                                      THEN <<row_.PartneriID>> ELSE <<>>
                       IN  bfs_collect(df, rest \o partner \o row_.Lapsed \o row_.Vanemad,
                                       visited_set \cup {current})
             ELSE bfs_collect(df, rest, visited_set)

\* temp_relationships.py:268-274: family ids, from the person at position k on.
RECURSIVE AssignFamilyIds(_, _, _)
AssignFamilyIds(df, k, fam_id_counter) ==
    IF k > Len(SortedSeq(DOMAIN df)) THEN df
    ELSE LET person_id == SortedSeq(DOMAIN df)[k]
         IN  IF df[person_id].PerekonnaID = None
             THEN LET connected == bfs_collect(df, <<person_id>>, {})
                  IN  AssignFamilyIds(
                        [p \in DOMAIN df |->
                           IF p \in connected
                           THEN [df[p] EXCEPT !.PerekonnaID = fam_id_counter]
                           ELSE df[p]],
                        k + 1, fam_id_counter + 1)
             ELSE AssignFamilyIds(df, k + 1, fam_id_counter)

\* temp_relationships.py:242-274: the BFS that forms "Perekonna ID".
FamilyIdsByBfs ==
    /\ pc = "rel_family"
    /\ df_people' = AssignFamilyIds(df_people, 1, 1)
    /\ pc' = "rel_address"
    /\ UNCHANGED <<more_vars, n_people, couples, possible_addresses, arrival_domain, final_address_map, families,
                   group, todo, family_arrival, family_departure, person_history_map,
                   all_records, iadr_counter, doc_id_counter, dropped, copied_from,
                   df_history>>

\* temp_relationships.py:306-330: the addresses one child can get, the adults'
\* addresses being set.
ChildAddresses(df, adult_addr, child) ==
    LET age_years == IF df[child].Synniaeg # None THEN now - df[child].Synniaeg ELSE 0
        parents_list == df[child].Vanemad
    IN  IF parents_list # <<>>
        THEN LET parent_addrs ==
                   UNION {IF adult_addr[chosen_parent_id] = None THEN AdrIDs
                          ELSE {adult_addr[chosen_parent_id]}
                          : chosen_parent_id \in Range(parents_list)}
             IN  IF age_years < AdultChildAge THEN parent_addrs
                 ELSE parent_addrs \cup AdrIDs
        ELSE AdrIDs

\* temp_relationships.py:279-330: addresses are cleared and assigned again.  The
\* first of a couple draws an address and the spouse shares it or draws another
\* (287-298), every other adult draws one (301-303): the adults can end with
\* any addresses of the pool.  Then the children get theirs (306-330).
AssignAddresses ==
    /\ pc = "rel_address"
    /\ LET adults == Range(AdultsOf(df_people))
           children == Range(ChildrenOf(df_people))
       IN  \E adult_addr \in [adults -> AdrIDs] :
             \E child_addr \in [children -> AdrIDs] :
                /\ \A c \in children :
                      child_addr[c] \in ChildAddresses(df_people, adult_addr, c)
                /\ df_people' = [p \in DOMAIN df_people |->
                                   [df_people[p] EXCEPT !.Aadress =
                                      IF p \in adults THEN adult_addr[p] ELSE child_addr[p]]]
    /\ pc' = "rel_done"
    /\ UNCHANGED <<more_vars, n_people, couples, possible_addresses, arrival_domain, final_address_map, families,
                   group, todo, family_arrival, family_departure, person_history_map,
                   all_records, iadr_counter, doc_id_counter, dropped, copied_from,
                   df_history>>

(***************************************************************************)
(* Spec: generate_isikuaadress on every small persons table.               *)
(***************************************************************************)
\* Family ids are numbered in order of first appearance, as the family-id
\* assignment of temp_relationships.py:268-274 numbers them.
CanonicalFamilies(pere) ==
    \A p \in DOMAIN pere :
        pere[p] <= 1 + Max({0} \cup {pere[q] : q \in {r \in DOMAIN pere : r < p}})

ParentLists(p, staatus) ==
    IF staatus[p] = Taiskasvanu THEN {<<>>}
    ELSE LET adults == {a \in DOMAIN staatus : staatus[a] = Taiskasvanu}
         IN  {<<>>} \cup {<<a>> : a \in adults}
             \cup {<<ab[1], ab[2]>> : ab \in {x \in adults \X adults : x[1] < x[2]}}

FinalAdr == 9

InitPeople(n) ==
    /\ pc = "ia_family"
    /\ n_people = n
    /\ \E staatus \in [1..n -> {Taiskasvanu, Laps}] :
         \E pere \in [1..n -> 1..n] :
           /\ CanonicalFamilies(pere)
           /\ \E surm \in [1..n -> NullableDates] :
                \E vanemad \in [1..n -> UNION {ParentLists(p, staatus) : p \in 1..n}] :
                  /\ \A p \in 1..n : vanemad[p] \in ParentLists(p, staatus)
                  /\ df_people = [p \in 1..n |->
                                    PersonRow(staatus[p], vanemad[p], surm[p], pere[p])]
    /\ couples = <<>>
    /\ possible_addresses = <<1>>
    /\ arrival_domain = NullableDates
    /\ \E S \in SUBSET (1..n) : final_address_map = [p \in S |-> FinalAdr]
    /\ families = FamilyIds(df_people)
    /\ group = <<>>
    /\ todo = <<>>
    /\ family_arrival = None
    /\ family_departure = None
    /\ person_history_map = <<>>
    /\ all_records = <<>>
    /\ iadr_counter = 1
    /\ doc_id_counter = 1
    /\ dropped = {}
    /\ copied_from = <<>>
    /\ df_history = <<>>

InitIsikuaadress ==
    /\ MoreIdle
    /\ InitPeople(NRows)

NextIsikuaadress ==
    \/ NextFamily
    \/ SkipAdult
    \/ BuildAdult
    \/ CopyChild
    \/ ApplyFamilyBounds
    \/ RemoveInvalid
    \/ AssignDatesFinal
    \/ Collect
    \/ Renumber

Spec == InitIsikuaadress /\ [][NextIsikuaadress]_vars

\* SpecAudit: generate_isikuaadress followed with the columns of step 6.
NAudit == 1

InitAudit ==
    /\ DeathIdle
    /\ KodIdle
    /\ AsIdle
    /\ DocIdle
    /\ DetIdle
    /\ ErrIdle
    /\ audit_columns = TRUE
    /\ InitPeople(NAudit)

SpecAudit == InitAudit /\ [][NextIsikuaadress]_vars

(***************************************************************************)
(* Properties of generate_isikuaadress                                     *)
(***************************************************************************)
KEHTIV == get_kdid_for_name(df_kodifikaator, "KEHTIV")
KEHTETU == get_kdid_for_name(df_kodifikaator, "KEHTETU")
ELUKOHT == get_kdid_for_name(df_kodifikaator, "ELUKOHT")
ENDINE_ELUKOHT == get_kdid_for_name(df_kodifikaator, "ENDINE ELUKOHT")

Returned == pc = "ia_done"

\* The rows of person p in a table.
RowsOf(table, p) == {table[i] : i \in {k \in DOMAIN table : table[k].IsID = p}}
OpenRows(table, p) == {r \in RowsOf(table, p) : r.IAdrKehtibKuniKpv = None}
Persons == DOMAIN df_people

\* The family whose rows have just joined all_records, or (after the last
\* family) are in the returned table: family_arrival and family_departure are
\* still those of this family.
Table == IF pc = "ia_done" THEN df_history ELSE all_records
FamilySettled == pc \in {"ia_family", "ia_renumber", "ia_done"} /\ group # <<>>

\* C1: in the returned table the intervals of a person, ordered by start date,
\* do not overlap (each ends strictly before the next one starts, so an open
\* interval is the last one) and at most one of them is open.
C1_NoOverlap ==
    Returned =>
        \A p \in Persons :
            /\ \A r1 \in RowsOf(df_history, p) : \A r2 \in RowsOf(df_history, p) :
                 (r1 # r2 /\ r1.IAdrKehtibAlatesKpv <= r2.IAdrKehtibAlatesKpv)
                     => (r1.IAdrKehtibKuniKpv # None
                         /\ r1.IAdrKehtibKuniKpv < r2.IAdrKehtibAlatesKpv)
            /\ Cardinality(OpenRows(df_history, p)) <= 1

\* A returned table in which a dead person and a person of a family with
\* arrival and departure dates both keep two or more intervals
C1_Witness ==
    /\ Returned
    /\ \E p \in Persons : Cardinality(RowsOf(df_history, p)) >= 2
                          /\ df_people[p].Surmaaeg # None
    /\ \E p \in Range(group) : /\ Cardinality(RowsOf(df_history, p)) >= 2
                               /\ family_arrival # None
                               /\ family_departure # None

\* C2: every returned interval with an end date has start <= end.
C2_StartBeforeEnd ==
    Returned =>
        \A i \in DOMAIN df_history :
            df_history[i].IAdrKehtibKuniKpv # None
                => df_history[i].IAdrKehtibAlatesKpv <= df_history[i].IAdrKehtibKuniKpv

\* A returned table of a person who lost an interval in step 5 and kept another.
C2_Witness ==
    Returned /\ \E p \in dropped : RowsOf(df_history, p) # {}

\* C3: a person with a death date D has no returned interval that starts after
\* D, none that is open, none that ends after D, and the intervals ending at D
\* have the former-residence status and kind.
C3_DeathTruncation ==
    Returned =>
        \A p \in Persons : df_people[p].Surmaaeg # None =>
            \A r \in RowsOf(df_history, p) :
                /\ r.IAdrKehtibAlatesKpv <= df_people[p].Surmaaeg
                /\ r.IAdrKehtibKuniKpv # None
                /\ r.IAdrKehtibKuniKpv <= df_people[p].Surmaaeg
                /\ r.IAdrKehtibKuniKpv = df_people[p].Surmaaeg
                     => (r.KdIDAadressiStaatus = KEHTETU
                         /\ r.KdIDAadressiLiik = ENDINE_ELUKOHT)

\* A dead adult and a dead child of the last family each keep an interval cut at
\* the death date, after the family arrival raised a first start.
C3_Witness ==
    /\ Returned
    /\ family_arrival # None /\ family_arrival > earliest_date
    /\ \E a \in Range(group), c \in Range(group) :
         /\ df_people[a].VanuseStaatus = Taiskasvanu
         /\ df_people[c].VanuseStaatus = Laps
         /\ \E r \in RowsOf(df_history, a) :
               /\ r.IAdrKehtibKuniKpv = df_people[a].Surmaaeg
               /\ r.IAdrKehtibAlatesKpv = family_arrival
         /\ \E r \in RowsOf(df_history, c) : r.IAdrKehtibKuniKpv = df_people[c].Surmaaeg

\* Status and kind follow the end date.
StatusMatchesEnd(r) ==
    /\ (r.KdIDAadressiStaatus = KEHTIV /\ r.KdIDAadressiLiik = ELUKOHT)
          <=> r.IAdrKehtibKuniKpv = None
    /\ (r.KdIDAadressiStaatus = KEHTETU /\ r.KdIDAadressiLiik = ENDINE_ELUKOHT)
          <=> r.IAdrKehtibKuniKpv # None

\* C4: at every stage (stored timelines, collected records, returned table) an
\* interval is KEHTIV / ELUKOHT exactly when it is open and KEHTETU / ENDINE
\* ELUKOHT exactly when it has an end date.
C4_StatusFollowsEnd ==
    /\ \A p \in DOMAIN person_history_map :
         \A i \in DOMAIN person_history_map[p] : StatusMatchesEnd(person_history_map[p][i])
    /\ \A i \in DOMAIN all_records : StatusMatchesEnd(all_records[i])
    /\ \A i \in DOMAIN df_history : StatusMatchesEnd(df_history[i])

\* A returned interval of a living person that the family departure closed.
C4_Witness ==
    /\ Returned
    /\ family_departure # None
    /\ \E p \in Range(group) :
         /\ df_people[p].Surmaaeg = None
         /\ \E r \in RowsOf(df_history, p) :
              r.IAdrKehtibKuniKpv = family_departure /\ r.IAdrKehtibAlatesKpv > latest_date

\* C5 as claimed: every person with an interval has exactly one open interval.
C5_ExactlyOneOpen ==
    Returned =>
        \A p \in Persons :
            RowsOf(df_history, p) # {} => Cardinality(OpenRows(df_history, p)) = 1

\* The persons that end without an open interval: the dead, the members of a
\* family with a departure date, the children copied from a dead parent.
Closed(p) ==
    \/ df_people[p].Surmaaeg # None
    \/ family_departure # None
    \/ /\ p \in DOMAIN copied_from
       /\ copied_from[p] # None
       /\ df_people[copied_from[p]].Surmaaeg # None

\* C5 amended: a person with an interval has exactly one open interval, unless
\* the person has a death date, the family has a departure date or the person
\* is a child whose timeline was copied from a parent with a death date; then
\* the person has none.
C5_OneOpenUnlessClosed ==
    FamilySettled =>
        \A p \in Range(group) :
            RowsOf(Table, p) # {} =>
                Cardinality(OpenRows(Table, p)) = IF Closed(p) THEN 0 ELSE 1

\* A living adult of a family without departure lost the first interval to the
\* family arrival and keeps the open one.
C5_Witness ==
    /\ Returned
    /\ \E p \in Range(group) :
         /\ p \in dropped /\ ~Closed(p) /\ RowsOf(df_history, p) # {}

\* C6 as claimed: the earliest start of a person is not before the arrival date
\* of the person's family.
C6_FirstStartAfterArrival ==
    (FamilySettled /\ family_arrival # None) =>
        \A p \in Range(group) :
            \A r \in RowsOf(Table, p) : r.IAdrKehtibAlatesKpv >= family_arrival

\* The place of the collected record i among the collected records ordered by
\* their original IAdrID.
RankOf(i) ==
    1 + Cardinality({j \in DOMAIN all_records :
                        all_records[j].IAdrID < all_records[i].IAdrID})

\* C17: the returned table of N rows has the IAdrID values 1..N, given in the
\* order of the original ids, and every next pointer is the new id of the row
\* the old pointer named, a row of the same person.
C17_Renumbered ==
    Returned =>
        /\ Len(df_history) = Len(all_records)
        /\ \A k \in DOMAIN df_history : df_history[k].IAdrID = k
        /\ \A i \in DOMAIN all_records :
             LET old == all_records[i]
                 new == df_history[RankOf(i)]
             IN  /\ new.IsID = old.IsID
                 /\ new.AdrID = old.AdrID
                 /\ new.IAdrKehtibAlatesKpv = old.IAdrKehtibAlatesKpv
                 /\ new.IAdrKehtibKuniKpv = old.IAdrKehtibKuniKpv
                 /\ (old.IAdrIDJargmine = None) <=> (new.IAdrIDJargmine = None)
                 /\ old.IAdrIDJargmine # None =>
                      \E j \in DOMAIN all_records :
                         /\ all_records[j].IAdrID = old.IAdrIDJargmine
                         /\ new.IAdrIDJargmine = RankOf(j)
                         /\ df_history[RankOf(j)].IsID = new.IsID

\* A returned table whose original ids had a gap (a first interval was removed)
\* and in which a person keeps two linked intervals.
C17_Witness ==
    /\ Returned
    /\ \E i \in DOMAIN all_records : all_records[i].IAdrID > Len(all_records)
    /\ \E k \in DOMAIN df_history : df_history[k].IAdrIDJargmine # None

\* C18 as claimed: generate_isikuaadress raises no error, whatever the
\* population.
C18_NoError == pc # "KeyError"

\* The returned rows of person p, in the order of their ids.
TimelineOf(p) == SelectSeq(df_history, LAMBDA r : r.IsID = p)

InitTables(n) ==
    /\ MoreIdle
    /\ pc = "rel_start"
    /\ n_people = n
    /\ df_people = <<>>
    /\ couples = <<>>
    /\ possible_addresses = <<1, 2>>
    /\ arrival_domain = {None}
    /\ final_address_map = <<>>
    /\ families = <<>>
    /\ group = <<>>
    /\ todo = <<>>
    /\ family_arrival = None
    /\ family_departure = None
    /\ person_history_map = <<>>
    /\ all_records = <<>>
    /\ iadr_counter = 1
    /\ doc_id_counter = 1
    /\ dropped = {}
    /\ copied_from = <<>>
    /\ df_history = <<>>

NextRel ==
    \/ BaseRecords
    \/ MaritalStatus
    \/ FormCouples
    \/ IdentifyCouples
    \/ AssignParents
    \/ AssignBirthDates
    \/ FamilyIdsByBfs
    \/ AssignAddresses

InitRel == InitTables(NPeople)

SpecRel == InitRel /\ [][NextRel]_vars

\* main.py:68-82: generate_isikuaadress is called on the relationships table.
CallIsikuaadress ==
    /\ pc = "rel_done"
    /\ final_address_map' = [p \in DOMAIN df_people |-> df_people[p].Aadress]
    /\ families' = FamilyIds(df_people)
    /\ pc' = "ia_family"
    /\ UNCHANGED <<more_vars, n_people, df_people, couples, possible_addresses, arrival_domain, group, todo,
                   family_arrival, family_departure, person_history_map, all_records,
                   iadr_counter, doc_id_counter, dropped, copied_from, df_history>>

\* Every person of the relationships table has an address, so no adult is
\* skipped for want of a final address.
NextPipe ==
    \/ NextRel
    \/ CallIsikuaadress
    \/ NextFamily
    \/ BuildAdult
    \/ CopyChild
    \/ ApplyFamilyBounds
    \/ RemoveInvalid
    \/ AssignDatesFinal
    \/ Collect
    \/ Renumber

InitPipe == InitTables(NPipe)

SpecPipe == InitPipe /\ [][NextPipe]_vars

(***************************************************************************)
(* Properties of the pipeline and of generate_temp_relatsionships          *)
(***************************************************************************)
\* C7 as claimed: every open interval of the pipeline's address table is at the
\* final address (Aadress) of the person it belongs to.
C7_OpenIsFinalAddress ==
    Returned =>
        \A i \in DOMAIN df_history :
            df_history[i].IAdrKehtibKuniKpv = None
                => df_history[i].AdrID = df_people[df_history[i].IsID].Aadress

RelResult == pc = "rel_done"

Linked(p, q) ==
    \/ df_people[p].PartneriID = q
    \/ q \in Range(df_people[p].Lapsed)
    \/ q \in Range(df_people[p].Vanemad)

\* C8: in the result every person has a family id, and two persons linked by a
\* partner, parent or child edge have the same family id.
C8_FamilyIdShared ==
    RelResult =>
        /\ \A p \in Persons : df_people[p].PerekonnaID # None
        /\ \A p \in Persons : \A q \in Persons :
             Linked(p, q) => df_people[p].PerekonnaID = df_people[q].PerekonnaID

\* A child of one parent whose partner is not a parent of the child: the three
\* are one family, beside which stands no one.
C8_Witness ==
    /\ RelResult
    /\ \E c \in Persons : \E a \in Persons : \E b \in Persons :
         /\ df_people[c].Vanemad = <<a>>
         /\ df_people[a].PartneriID = b
         /\ df_people[b].Lapsed = <<>>
         /\ df_people[c].PerekonnaID = df_people[b].PerekonnaID

\* C9 as claimed: every adult with status Abielus has a partner.
C9_MarriedHasPartner ==
    RelResult =>
        \A p \in Persons :
            (df_people[p].VanuseStaatus = Taiskasvanu /\ df_people[p].Suhteseis = Abielus)
                => df_people[p].PartneriID # None

\* C10: the partner reference is a symmetric, irreflexive matching between
\* adults with status Abielus; a child is Vallaline and has no partner.
C10_PartnerMatching ==
    RelResult =>
        \A p \in Persons :
            /\ df_people[p].PartneriID # None =>
                 LET q == df_people[p].PartneriID
                 IN  /\ q \in Persons
                     /\ q # p
                     /\ df_people[q].PartneriID = p
                     /\ df_people[p].VanuseStaatus = Taiskasvanu
                     /\ df_people[p].Suhteseis = Abielus
                     /\ df_people[q].VanuseStaatus = Taiskasvanu
                     /\ df_people[q].Suhteseis = Abielus
            /\ df_people[p].VanuseStaatus = Laps =>
                 (df_people[p].Suhteseis = Vallaline /\ df_people[p].PartneriID = None)

\* Three married adults: two are partners, with the larger id first in the
\* shuffled list, and the third stays without partner.
C10_Witness ==
    /\ RelResult
    /\ \E p \in Persons : \E q \in Persons : \E r \in Persons :
         /\ p > q
         /\ df_people[p].PartneriID = q
         /\ df_people[r].Suhteseis = Abielus
         /\ df_people[r].PartneriID = None

\* C11 as claimed: every recorded parent of a child is born strictly before the
\* child.
C11_ParentsBornBeforeChild ==
    RelResult =>
        \A c \in Persons : df_people[c].VanuseStaatus = Laps =>
            \A k \in DOMAIN df_people[c].Vanemad :
                df_people[df_people[c].Vanemad[k]].Synniaeg < df_people[c].Synniaeg

(***************************************************************************)
(* The tables of the pipeline, for a function that is run on its own.      *)
(***************************************************************************)
main_vars == <<n_people, df_people, couples, possible_addresses, arrival_domain,
               final_address_map, families, group, todo, family_arrival,
               family_departure, person_history_map, all_records, iadr_counter,
               doc_id_counter, dropped, copied_from, df_history>>

TablesWith(adrs, final_map) ==
    /\ n_people = 0
    /\ df_people = <<>>
    /\ couples = <<>>
    /\ possible_addresses = adrs
    /\ arrival_domain = {None}
    /\ final_address_map = final_map
    /\ families = <<>>
    /\ group = <<>>
    /\ todo = <<>>
    /\ family_arrival = None
    /\ family_departure = None
    /\ person_history_map = <<>>
    /\ all_records = <<>>
    /\ iadr_counter = 1
    /\ doc_id_counter = 1
    /\ dropped = {}
    /\ copied_from = <<>>
    /\ df_history = <<>>

TablesIdle == TablesWith(<<>>, <<>>)

(***************************************************************************)
(* SpecDeath: utils.py, adjust_timeline_for_death called on any timeline   *)
(***************************************************************************)
MaxTimeline == 2

\* The rows a timeline can hold: any start, any end, status and kind as
\* isikuaadress.py:131-137 give them.
TimelineRows ==
    {NewRec(1, 1, 1, start, end, LiikOf(end), StatusOf(end), 1) :
        start \in Dates, end \in NullableDates}

Timelines == UNION {[1..n -> TimelineRows] : n \in 0..MaxTimeline}

\* utils.py:98-113: the rows of the list passed in are dictionaries changed in
\* place; a skipped row stays in the caller's list as it was.
RowsAfterCall(kd, timeline, death_date) ==
    IF death_date = None THEN timeline
    ELSE [i \in DOMAIN timeline |->
            IF timeline[i].IAdrKehtibAlatesKpv > death_date THEN timeline[i]
            ELSE IF timeline[i].IAdrKehtibKuniKpv = None
                    \/ timeline[i].IAdrKehtibKuniKpv > death_date
                 THEN [timeline[i] EXCEPT
                         !.IAdrKehtibKuniKpv = death_date,
                         !.KdIDAadressiStaatus = get_kdid_for_name(kd, "KEHTETU"),
                         !.KdIDAadressiLiik = get_kdid_for_name(kd, "ENDINE ELUKOHT")]
                 ELSE timeline[i]]

InitDeath ==
    /\ pc = "death_call"
    /\ TablesIdle
    /\ KodIdle
    /\ AsIdle
    /\ AuditIdle
    /\ DocIdle
    /\ DetIdle
    /\ ErrIdle
    /\ arg_timeline \in Timelines
    /\ arg_death_date \in NullableDates
    /\ ret_updated = <<>>

CallAdjustForDeath ==
    /\ pc = "death_call"
    /\ ret_updated' = adjust_timeline_for_death(df_kodifikaator, arg_timeline, arg_death_date)
    /\ arg_timeline' = RowsAfterCall(df_kodifikaator, arg_timeline, arg_death_date)
    /\ pc' = "death_done"
    /\ UNCHANGED <<arg_death_date, main_vars, kod_vars, as_vars, audit_vars, doc_vars, det_vars, err_vars>>

NextDeath == CallAdjustForDeath

SpecDeath == InitDeath /\ [][NextDeath]_vars

\* What the truncation is to return for a non-null death date: the rows that
\* start on or before it, in their order, an open or later end clamped.
KeptIndices(timeline, death_date) ==
    SortedSeq({i \in DOMAIN timeline : timeline[i].IAdrKehtibAlatesKpv <= death_date})

ClampedRow(row, death_date) ==
    IF row.IAdrKehtibKuniKpv = None \/ row.IAdrKehtibKuniKpv > death_date
    THEN [row EXCEPT !.IAdrKehtibKuniKpv = death_date,
                     !.KdIDAadressiStaatus = KEHTETU,
                     !.KdIDAadressiLiik = get_kdid_for_name(df_kodifikaator, "ENDINE ELUKOHT")]
    ELSE row

\* C19: adjust_timeline_for_death returns the timeline unchanged for a null
\* death date; otherwise it returns exactly the rows starting on or before the
\* death date, in their order, each with an open or later end clamped to the
\* death date and marked KEHTETU / ENDINE ELUKOHT, the others unchanged.
C19_DeathTruncation ==
    [][pc = "death_call" =>
         ret_updated' =
            IF arg_death_date = None THEN arg_timeline
            ELSE [k \in DOMAIN KeptIndices(arg_timeline, arg_death_date) |->
                    ClampedRow(arg_timeline[KeptIndices(arg_timeline, arg_death_date)[k]],
                               arg_death_date)]]_vars

\* A row starting on the death date was kept and clamped, and another dropped.
C19_Witness ==
    /\ pc = "death_done"
    /\ arg_death_date # None
    /\ Len(ret_updated) < Len(arg_timeline)
    /\ \E k \in DOMAIN ret_updated :
         /\ ret_updated[k].IAdrKehtibAlatesKpv = arg_death_date
         /\ ret_updated[k].IAdrKehtibKuniKpv = arg_death_date
         /\ ret_updated[k].KdIDAadressiStaatus = KEHTETU

(***************************************************************************)
(* SpecKod: kodakondsus.py, generate_kodakondsus                           *)
(***************************************************************************)
NKod == 2
MaxKodDate == 2
kod_earliest_date == 1
start_doc_id == 1
\* kodakondsus.py:56: now = datetime.now(); no person is born after it.
kod_now == MaxKodDate
KodDates == 0..MaxKodDate

\* kodakondsus.py:61-64: the columns of df_isik the function reads.
IsikRows(is_id) ==
    {[IsID |-> is_id, Kodakondsus |-> person_kod, Synniaeg |-> syn] :
        person_kod \in {"EE", "MUU"}, syn \in KodDates \cup {None}}

\* kodakondsus.py:69-145: the records one person can get. random_date(start, end) is
\* the set of dates a call of random_date can return.
KodRecordsOf(row, kod_id, doc_counter, earliest) ==
    LET kd_riik == IF row.Kodakondsus = "EE"
                   THEN get_kdid_for_name(df_kodifikaator, "EE") ELSE None
        kod_start_candidate == IF row.Synniaeg # None THEN row.Synniaeg ELSE earliest
        dok_id_algus == doc_counter + 1
    IN  UNION { UNION { UNION { UNION { UNION {
          { [KodID |-> kod_id, IsID |-> row.IsID, KdIDRiik |-> kd_riik,
             KodKehtibAlates |-> kod_kehtib_alates,
             KodKehtibKuni |-> kod_kehtib_kuni,
             DokIDAlguseAlus |-> dok_id_algus,
             DokIDLopuAlus |-> dok_id_lopp,
             KdIDStaatus |-> IF kod_kehtib_kuni # None \/ kustutati # None
                             THEN get_kdid_for_name(df_kodifikaator, "KEHTETU")
                             ELSE get_kdid_for_name(df_kodifikaator, "KEHTIV"),
             IAsIDLooja |-> None, IAsIDMuutja |-> None,
             LoodiKpv |-> loodi,
             MuudetiKpv |-> IF kustutati # None THEN kustutati ELSE muudeti,
             KustutatiKpv |-> kustutati] :
            \* 118-122: 5% chance of KustutatiKpv
            kustutati \in {None} \cup random_date(loodi, kod_now) }
          \* 110-115: 50% chance of MuudetiKpv, only with an end date
          : muudeti \in {None} \cup (IF kod_kehtib_kuni # None
                                      THEN random_date(loodi, kod_now) ELSE {}) }
          \* 106
          : loodi \in random_date(earliest, kod_kehtib_alates) }
          \* 96-103: an end document only with an end date
          : dok_id_lopp \in {None} \cup (IF kod_kehtib_kuni # None
                                         THEN {dok_id_algus + 1} ELSE {}) }
          \* 85-90: 20% chance of KodKehtibKuni
          : kod_kehtib_kuni \in {None} \cup random_date(kod_kehtib_alates, kod_now) }
          \* 82
          : kod_kehtib_alates \in random_date(kod_start_candidate, kod_now) }

\* kodakondsus.py:61-145: one pass of the loop over df_isik.
KodRecord ==
    /\ pc = "kk_loop"
    /\ Len(kod_records) < Len(df_isik)
    /\ \E record \in KodRecordsOf(df_isik[Len(kod_records) + 1], kod_id_counter,
                                   kod_doc_id_counter, kod_earliest_date) :
         /\ kod_records' = Append(kod_records, record)
         \* 99 and 145
         /\ kod_doc_id_counter' =
               kod_doc_id_counter + (IF record.DokIDLopuAlus # None THEN 2 ELSE 1)
    /\ kod_id_counter' = kod_id_counter + 1
    /\ UNCHANGED <<pc, df_isik, main_vars, death_vars, as_vars, audit_vars, doc_vars, det_vars, err_vars>>

\* kodakondsus.py:147
KodReturn ==
    /\ pc = "kk_loop"
    /\ Len(kod_records) = Len(df_isik)
    /\ pc' = "kk_done"
    /\ UNCHANGED <<kod_vars, main_vars, death_vars, as_vars, audit_vars, doc_vars, det_vars, err_vars>>

InitKod ==
    /\ pc = "kk_loop"
    /\ TablesIdle
    /\ DeathIdle
    /\ AsIdle
    /\ AuditIdle
    /\ DocIdle
    /\ DetIdle
    /\ ErrIdle
    /\ \E n \in 1..NKod :
         \E rows \in [1..n -> UNION {IsikRows(i) : i \in 1..n}] :
           /\ \A i \in 1..n : rows[i].IsID = i
           /\ df_isik = rows
    /\ kod_records = <<>>
    /\ kod_id_counter = 1
    /\ kod_doc_id_counter = start_doc_id

NextKod ==
    \/ KodRecord
    \/ KodReturn

SpecKod == InitKod /\ [][NextKod]_vars

\* C16: in every record of generate_kodakondsus, also for a person born before
\* earliest_date, LoodiKpv <= KodKehtibAlates, LoodiKpv <= MuudetiKpv when
\* MuudetiKpv is present, and MuudetiKpv <= KustutatiKpv when both are present.
C16_TemporalOrder ==
    \A i \in DOMAIN kod_records :
        /\ kod_records[i].LoodiKpv <= kod_records[i].KodKehtibAlates
        /\ kod_records[i].MuudetiKpv # None =>
              kod_records[i].LoodiKpv <= kod_records[i].MuudetiKpv
        /\ (kod_records[i].MuudetiKpv # None /\ kod_records[i].KustutatiKpv # None) =>
              kod_records[i].MuudetiKpv <= kod_records[i].KustutatiKpv

(***************************************************************************)
(* SpecAsutus: asutus.py, generate_asutus and build_isik_asutus            *)
(***************************************************************************)
NAsutus == 2
as_earliest_date == 1
ias_earliest_date == 0
\* asutus.py:49: the login is closed at most 7 days after it was opened.
max_7_days == 1
\* asutus.py:41, 146: now = datetime.now()
as_now == MaxKodDate

\* asutus.py:149-228: the records one input row can get. The contact, the
\* names and the random codes of the record are left out.
AsutusRecordsOf(i, row) ==
    UNION { UNION { UNION { UNION {
      { [AsID |-> i,
         AsAlguseKpv |-> as_alguse_kpv,
         AsLopuKpv |-> as_lopu_kpv,
         LoodiKpv |-> loodi_kpv,
         MuudetiKpv |-> muudeti_kpv,
         KustutatiKpv |-> kustutati_kpv,
         \* 194-197
         KdIDStaatus |-> IF row.Staatus = "Registrisse kantud"
                         THEN get_kdid_for_name(df_kodifikaator, "KEHTIV")
                         ELSE get_kdid_for_name(df_kodifikaator, "KEHTETU"),
         KdIDRiik |-> get_kdid_for_name(df_kodifikaator, "EE")] :
        \* 170-173
        kustutati_kpv \in {None} \cup (IF as_lopu_kpv # None THEN {as_lopu_kpv} ELSE {}) }
      \* 164-167
      : muudeti_kpv \in {None} \cup random_date(loodi_kpv, as_now) }
      \* 161
      : loodi_kpv \in random_date(as_earliest_date, as_alguse_kpv) }
      \* 156-158
      : as_lopu_kpv \in {None} \cup random_date(as_alguse_kpv, as_now) }
      \* 153
      : as_alguse_kpv \in random_date(as_earliest_date, as_now) }

\* asutus.py:149-228: one pass of the loop of generate_asutus.
AsutusRecord ==
    /\ pc = "as_loop"
    /\ Len(as_data) < Len(as_df)
    /\ \E record \in AsutusRecordsOf(Len(as_data) + 1, as_df[Len(as_data) + 1]) :
         as_data' = Append(as_data, record)
    /\ UNCHANGED <<pc, as_df, ias_df, ias_records, main_vars, death_vars, kod_vars, audit_vars, doc_vars, det_vars, err_vars>>

\* asutus.py:230
AsutusReturn ==
    /\ pc = "as_loop"
    /\ Len(as_data) = Len(as_df)
    /\ pc' = "as_done"
    /\ UNCHANGED <<as_vars, main_vars, death_vars, kod_vars, audit_vars, doc_vars, det_vars, err_vars>>

\* asutus.py:41-106: the records generate_isik_asutus can return.
generate_isik_asutus(ias_id, is_id, as_id) ==
    UNION { UNION { UNION { UNION { UNION {
      { [IAsID |-> ias_id, IsID |-> is_id, AsID |-> as_id,
         IAsAlgusKpv |-> ias_algus_kpv,
         IAsKinniKpv |-> ias_kinni_kpv,
         \* 79-83: a deletion overrides the status
         KdIDStaatus |-> IF kustutati_kpv # None
                         THEN get_kdid_for_name(df_kodifikaator, "KEHTETU")
                         ELSE kd_id_staatus,
         LoodiKpv |-> loodi_kpv,
         MuudetiKpv |-> muudeti_kpv,
         KustutatiKpv |-> kustutati_kpv] :
        kustutati_kpv \in {None} \cup random_date(ias_algus_kpv, as_now) }
      \* 73-76
      : muudeti_kpv \in {None} \cup random_date(loodi_kpv, as_now) }
      \* 70
      : loodi_kpv \in random_date(ias_earliest_date, ias_algus_kpv) }
      \* 56-60
      : kd_id_staatus \in {get_kdid_for_name(df_kodifikaator, "KEHTIV"),
                           get_kdid_for_name(df_kodifikaator, "KEHTETU")} }
      \* 47-53
      : ias_kinni_kpv \in {None} \cup
            random_date(ias_algus_kpv, Min({ias_algus_kpv + max_7_days, as_now})) }
      \* 44
      : ias_algus_kpv \in random_date(ias_earliest_date, as_now) }

\* asutus.py:242-256: the next row of df, skipped when it has no AsID.
IsikAsutusRow ==
    /\ pc = "ias_loop"
    /\ ias_df # <<>>
    /\ IF Head(ias_df).AsID # None
       THEN \E record_ia \in generate_isik_asutus(Len(ias_records) + 1,
                                                   Head(ias_df).IsID, Head(ias_df).AsID) :
              ias_records' = Append(ias_records, record_ia)
       ELSE UNCHANGED ias_records
    /\ ias_df' = Tail(ias_df)
    /\ UNCHANGED <<pc, as_df, as_data, main_vars, death_vars, kod_vars, audit_vars, doc_vars, det_vars, err_vars>>

\* asutus.py:258-259
IsikAsutusReturn ==
    /\ pc = "ias_loop"
    /\ ias_df = <<>>
    /\ pc' = "ias_done"
    /\ UNCHANGED <<as_vars, main_vars, death_vars, kod_vars, audit_vars, doc_vars, det_vars, err_vars>>

\* Either function is called: generate_asutus on a table of institutions, or
\* build_isik_asutus on a table of persons.
InitAsutus ==
    /\ TablesIdle
    /\ DeathIdle
    /\ KodIdle
    /\ AuditIdle
    /\ DocIdle
    /\ DetIdle
    /\ ErrIdle
    /\ as_data = <<>>
    /\ ias_records = <<>>
    /\ \/ /\ pc = "as_loop"
          /\ ias_df = <<>>
          /\ \E n \in 1..NAsutus :
               as_df \in [1..n -> {[Staatus |-> st] :
                                     st \in {"Registrisse kantud", "Kustutatud"}}]
       \/ /\ pc = "ias_loop"
          /\ as_df = <<>>
          /\ \E n \in 1..NAsutus :
               \E as_id \in [1..n -> {None, 1}] :
                 ias_df = [i \in 1..n |-> [IsID |-> i, AsID |-> as_id[i]]]

NextAsutus ==
    \/ AsutusRecord
    \/ AsutusReturn
    \/ IsikAsutusRow
    \/ IsikAsutusReturn

SpecAsutus == InitAsutus /\ [][NextAsutus]_vars

(***************************************************************************)
(* Properties of step 6 of generate_isikuaadress                           *)
(***************************************************************************)
\* C15: in the returned address history every interval with a KustutatiKpv
\* has status KEHTETU, and where MuudetiKpv and KustutatiKpv are both present
\* MuudetiKpv <= KustutatiKpv.
C15_DeletedIsClosed ==
    (Returned /\ audit_columns) =>
        \A i \in DOMAIN df_history :
            /\ df_history[i].KustutatiKpv # None =>
                  df_history[i].KdIDAadressiStaatus = KEHTETU
            /\ (df_history[i].MuudetiKpv # None /\ df_history[i].KustutatiKpv # None) =>
                  df_history[i].MuudetiKpv <= df_history[i].KustutatiKpv

\* A returned interval deleted after it was modified.
C15_Witness ==
    /\ Returned
    /\ audit_columns
    /\ \E i \in DOMAIN df_history :
         /\ df_history[i].KustutatiKpv # None
         /\ df_history[i].MuudetiKpv # None
         /\ df_history[i].MuudetiKpv < df_history[i].KustutatiKpv
         /\ df_history[i].KdIDAadressiStaatus = KEHTETU

(***************************************************************************)
(* SpecDocs: main.py:87-141, the citizenship table and the document        *)
(* batches; temp_person_document.py, generate_person_document              *)
(***************************************************************************)
NDocPeople == 1
doc_earliest_date == 1
\* temp_person_document.py:83
doc_now == kod_now

\* main.py:92-113; the name KODAKONDSUSE TÜHISTAMINE is written without its
\* diacritic.
doc_definitions ==
    << [doc_type |-> "ELUKOHATEADE", mode |-> "source", doc_id_col |-> "DokIDAlus",
        end_date_col |-> "IAdrKehtibKuniKpv", loodi_date_col |-> "LoodiKpv"],
       [doc_type |-> "KODAKONDSUSE TYHISTAMINE", mode |-> "source",
        doc_id_col |-> "DokIDLopuAlus",
        end_date_col |-> "", loodi_date_col |-> "LoodiKpv"],
       [doc_type |-> "KODAKONDSUS", mode |-> "source", doc_id_col |-> "DokIDAlguseAlus",
        end_date_col |-> "KodKehtibKuni", loodi_date_col |-> "LoodiKpv"],
       [doc_type |-> "JUHILUBA", mode |-> "random", doc_id_col |-> "",
        end_date_col |-> "", loodi_date_col |-> ""] >>

\* main.py:92-113: the table a batch is generated from.
SourceOf(batch) ==
    IF batch = 1 THEN gen_df_iadr
    ELSE IF batch \in {2, 3} THEN kod_records
    ELSE gen_df_is

\* temp_person_document.py:89-105: the DokID of a row and the counter after it.
DokIdOf(def, row, counter) ==
    IF def.mode = "source" /\ def.doc_id_col # "" /\ def.doc_id_col \in DOMAIN row
    THEN (IF row[def.doc_id_col] = None
          THEN <<counter, counter + 1>>
          ELSE <<row[def.doc_id_col], counter>>)
    ELSE <<counter, counter + 1>>

\* temp_person_document.py:114-126
LoodiOf(def, row) ==
    IF def.mode = "source" /\ def.loodi_date_col # "" /\ def.loodi_date_col \in DOMAIN row
       /\ row[def.loodi_date_col] # None
    THEN {row[def.loodi_date_col]}
    ELSE random_date(doc_earliest_date, doc_now)

\* One row of the document table; the number series, the issuing institutions
\* and the columns that are always null are left out.
DocRow(row, def, i, dok_id, loodi_kpv, kuni, muudeti_kpv, kustutati_kpv, staatus) ==
    [IsID |-> row.IsID, DokID |-> dok_id, DokNumber |-> <<def.doc_type, i>>,
     DokKehtivKuniKpv |-> kuni, LoodiKpv |-> loodi_kpv,
     \* 228-229
     MuudetiKpv |-> IF kustutati_kpv # None THEN kustutati_kpv ELSE muudeti_kpv,
     KustutatiKpv |-> kustutati_kpv,
     KdIDDokumendiStaatus |-> get_kdid_for_name(df_kodifikaator, staatus)]

\* temp_person_document.py:154-194: the rows of a residence notice.
ResidenceRows(row, def, i, dok_id, loodi_kpv) ==
    LET end_ == IF def.end_date_col \in DOMAIN row THEN row[def.end_date_col] ELSE None
    IN  IF end_ = None
        THEN {DocRow(row, def, i, dok_id, loodi_kpv, None, muudeti_kpv, None, "KEHTIV") :
                muudeti_kpv \in random_date(loodi_kpv, doc_now)}
        ELSE UNION {
               {DocRow(row, def, i, dok_id, loodi_kpv, end_, dok_kehtetu_alates_kpv,
                       kustutati_kpv, "KEHTETU") :
                  kustutati_kpv \in {None} \cup random_date(loodi_kpv, doc_now)}
               : dok_kehtetu_alates_kpv \in {end_} \cup random_date(end_, doc_now)}

\* temp_person_document.py:196-222: the rows of any other document.
GenericRows(row, def, i, dok_id, loodi_kpv) ==
    UNION {
      {DocRow(row, def, i, dok_id, loodi_kpv, None, muudeti_kpv, None, "KEHTIV") :
          muudeti_kpv \in random_date(loodi_kpv, doc_now)}
      \cup
      UNION { UNION {
        {DocRow(row, def, i, dok_id, loodi_kpv, dok_kehtiv_kuni_kpv,
                dok_kehtetu_alates_kpv, kustutati_kpv, "KEHTETU") :
            kustutati_kpv \in {None} \cup random_date(loodi_kpv, doc_now)}
        : dok_kehtetu_alates_kpv \in
            {dok_kehtiv_kuni_kpv} \cup random_date(dok_kehtiv_kuni_kpv, doc_now)}
        : dok_kehtiv_kuni_kpv \in random_date(dok_valjaantud_kpv, doc_now)}
      : dok_valjaantud_kpv \in random_date(loodi_kpv, doc_now)}

\* temp_person_document.py:87-264: the rows one source row can give.
PersonDocRows(row, def, i, dok_id) ==
    UNION {
      IF def.doc_type = "ELUKOHATEADE" /\ def.mode = "source"
      THEN ResidenceRows(row, def, i, dok_id, loodi_kpv)
      ELSE GenericRows(row, def, i, dok_id, loodi_kpv)
      : loodi_kpv \in LoodiOf(def, row)}

\* main.py:93-99: the columns of the address history that the residence
\* notices are generated from.
IadrColumns(row) ==
    [IsID |-> row.IsID, DokIDAlus |-> row.DokIDAlus,
     IAdrKehtibAlatesKpv |-> row.IAdrKehtibAlatesKpv,
     IAdrKehtibKuniKpv |-> row.IAdrKehtibKuniKpv, LoodiKpv |-> row.LoodiKpv]

\* isikuaadress.py:102-171, 296-329: the address histories of persons p..n, all
\* of them living adults of families without arrival or departure date, whose
\* rows get the ids next_id, next_id + 1, ... and keep them in the returned
\* table.
RECURSIVE IadrTables(_, _, _)
IadrTables(p, n, next_id) ==
    IF p > n THEN {<<>>}
    ELSE UNION { UNION { UNION {
           { [k \in DOMAIN tml |-> IadrColumns(tml[k])] \o rest :
               rest \in IadrTables(p + 1, n, next_id + Len(tml)) }
           : tml \in assign_dates_final(LinkInitial(timeline)) }
           : timeline \in BuildPeriods(p, 0, address_count, earliest_date, None,
                                       next_id, next_id) }
           : address_count \in min_address_count..max_address_count }

\* main.py:73-90: the tables are there; generate_kodakondsus is called with the
\* persons table, which has no 'Kodakondsus' and no 'Sünniaeg' column
\* (kodakondsus.py:63-64), and with the largest DokIDAlus as start_doc_id.
InitDocs ==
    /\ pc = "kk_loop"
    /\ DeathIdle
    /\ AsIdle
    /\ AuditIdle
    /\ DetIdle
    /\ ErrIdle
    /\ \E n \in 1..NDocPeople :
         /\ TablesWith(<<1>>, [p \in 1..n |-> FinalAdr])
         /\ gen_df_is = [p \in 1..n |->
                           [IsID |-> p, Kodakondsus |-> "EE", Synniaeg |-> None]]
         /\ gen_df_iadr \in IadrTables(1, n, 1)
    /\ df_isik = gen_df_is
    /\ kod_records = <<>>
    /\ kod_id_counter = 1
    /\ kod_doc_id_counter = Max({gen_df_iadr[k].DokIDAlus : k \in DOMAIN gen_df_iadr})
    /\ doc_batch = 1
    /\ doc_rows = <<>>
    /\ gpd_doc_id_counter = 1
    /\ main_doc_id_counter = 1
    /\ doc_dfs = <<>>
    /\ df_docs_isid12 = <<>>

\* main.py:117-121: the loop over doc_definitions starts.
StartDocuments ==
    /\ pc = "kk_done"
    /\ main_doc_id_counter' = 1
    /\ gpd_doc_id_counter' = 1
    /\ doc_batch' = 1
    /\ doc_rows' = <<>>
    /\ doc_dfs' = <<>>
    /\ pc' = "doc_loop"
    /\ UNCHANGED <<gen_df_iadr, gen_df_is, df_docs_isid12, main_vars, death_vars,
                   kod_vars, as_vars, audit_vars, det_vars, err_vars>>

\* temp_person_document.py:87-264: one pass of the loop over df_source.
PersonDocRow ==
    /\ pc = "doc_loop"
    /\ doc_batch <= Len(doc_definitions)
    /\ Len(doc_rows) < Len(SourceOf(doc_batch))
    /\ LET def == doc_definitions[doc_batch]
           i == Len(doc_rows)
           row == SourceOf(doc_batch)[i + 1]
           id == DokIdOf(def, row, gpd_doc_id_counter)
       IN  /\ \E doc \in PersonDocRows(row, def, i, id[1]) :
                doc_rows' = Append(doc_rows, doc)
           /\ gpd_doc_id_counter' = id[2]
    /\ UNCHANGED <<pc, gen_df_iadr, gen_df_is, doc_batch, main_doc_id_counter, doc_dfs,
                   df_docs_isid12, main_vars, death_vars, kod_vars, as_vars, audit_vars, det_vars, err_vars>>

\* temp_person_document.py:266 and main.py:138-139: the batch is returned, and
\* the next one starts at its largest DokID + 1.
PersonDocReturn ==
    /\ pc = "doc_loop"
    /\ doc_batch <= Len(doc_definitions)
    /\ Len(doc_rows) = Len(SourceOf(doc_batch))
    /\ doc_dfs' = Append(doc_dfs, doc_rows)
    /\ main_doc_id_counter' = Max({doc_rows[k].DokID : k \in DOMAIN doc_rows}) + 1
    /\ gpd_doc_id_counter' = main_doc_id_counter'
    /\ doc_rows' = <<>>
    /\ doc_batch' = doc_batch + 1
    /\ UNCHANGED <<pc, gen_df_iadr, gen_df_is, df_docs_isid12, main_vars, death_vars,
                   kod_vars, as_vars, audit_vars, det_vars, err_vars>>

RECURSIVE ConcatAll(_)
ConcatAll(dfs) == IF dfs = <<>> THEN <<>> ELSE Head(dfs) \o ConcatAll(Tail(dfs))

\* main.py:141
ConcatDocuments ==
    /\ pc = "doc_loop"
    /\ doc_batch > Len(doc_definitions)
    /\ df_docs_isid12' = ConcatAll(doc_dfs)
    /\ pc' = "doc_done"
    /\ UNCHANGED <<gen_df_iadr, gen_df_is, doc_batch, doc_rows, gpd_doc_id_counter,
                   main_doc_id_counter, doc_dfs, main_vars, death_vars, kod_vars,
                   as_vars, audit_vars, det_vars, err_vars>>

NextDocs ==
    \/ KodRecord
    \/ KodReturn
    \/ StartDocuments
    \/ PersonDocRow
    \/ PersonDocReturn
    \/ ConcatDocuments

SpecDocs == InitDocs /\ [][NextDocs]_vars

\* C13: in the concatenated document table DokID is non-null and no two rows
\* have the same DokID.
C13_DokIDUnique ==
    pc = "doc_done" =>
        /\ \A k \in DOMAIN df_docs_isid12 : df_docs_isid12[k].DokID # None
        /\ \A j, k \in DOMAIN df_docs_isid12 :
              j # k => df_docs_isid12[j].DokID # df_docs_isid12[k].DokID

\* temp_person_document.py:227-229, kodakondsus.py:118-125: a deleted record is
\* inactive and was last modified when it was deleted.
DeletedIsInactive(record, staatus) ==
    /\ record.KustutatiKpv # None => staatus = KEHTETU
    /\ (record.MuudetiKpv # None /\ record.KustutatiKpv # None) =>
          record.MuudetiKpv = record.KustutatiKpv

\* C14: in every record of generate_kodakondsus, generate_person_document,
\* generate_asutus and generate_isik_asutus a KustutatiKpv comes with the
\* status KEHTETU, and a MuudetiKpv beside a KustutatiKpv is equal to it.
C14_DeletedIsInactive ==
    /\ \A i \in DOMAIN kod_records :
          DeletedIsInactive(kod_records[i], kod_records[i].KdIDStaatus)
    /\ \A i \in DOMAIN doc_rows :
          DeletedIsInactive(doc_rows[i], doc_rows[i].KdIDDokumendiStaatus)
    /\ \A i \in DOMAIN df_docs_isid12 :
          DeletedIsInactive(df_docs_isid12[i], df_docs_isid12[i].KdIDDokumendiStaatus)
    /\ \A i \in DOMAIN as_data :
          DeletedIsInactive(as_data[i], as_data[i].KdIDStaatus)
    /\ \A i \in DOMAIN ias_records :
          DeletedIsInactive(ias_records[i], ias_records[i].KdIDStaatus)

(***************************************************************************)
(* SpecDet: main.py, two runs of generate_tables with the same seed and    *)
(* the same input tables, one record and one person each                   *)
(***************************************************************************)
NAdrInput == 2
MaxRaw == 1
MaxClockStep == 1
MinSihtnumber == 10000

\* The ADR_ID column of the input table data["aadress"].
AdrInput == 1..NAdrInput
\* The values the seeded generator can give at one place of its stream.
RawValues == 0..MaxRaw
\* isik.py:7: the first names Faker('et_EE') can give; it is never seeded.
FakerNames == {"Mari", "Jaan"}

EmptyTables == [aadress |-> <<>>, temp_rel |-> <<>>, isik |-> <<>>]

\* random (seeded by random.seed(seed)) gives v next after place `pos` of its
\* stream: the value it gave there before, or, at a place not read yet, any.
SeededDraw(pos, v) ==
    /\ v \in (IF pos < Len(seeded_stream) THEN {seeded_stream[pos + 1]} ELSE RawValues)
    /\ seeded_stream' = IF pos < Len(seeded_stream) THEN seeded_stream
                        ELSE Append(seeded_stream, v)
    /\ stream_pos' = pos + 1

\* aadress.py:32-51: random.seed(seed); df.sample without random_state draws
\* from numpy's generator, which nothing seeds; AdrSihtnumber is drawn from
\* random.
DetAadress ==
    /\ pc = "det_aadress"
    /\ \E adr_id \in AdrInput, v \in RawValues :
         /\ SeededDraw(0, v)
         /\ det_tables' = [det_tables EXCEPT ![det_run].aadress =
                             <<[AdrID |-> adr_id, AdrSihtnumber |-> MinSihtnumber + v]>>]
    /\ pc' = "det_rel"
    /\ UNCHANGED <<det_run, wall_clock, main_vars, death_vars, kod_vars, as_vars,
                   audit_vars, doc_vars, err_vars>>

\* temp_relationships.py:64-76, 177-181, 303: random.seed(seed); now is read
\* from the wall clock; the birth date of the (adult) person is a seeded
\* number of days after now - 100 years; its address is the one sampled.
DetRelationships ==
    /\ pc = "det_rel"
    /\ \E t \in wall_clock..(now + MaxClockStep), random_days \in RawValues :
         /\ wall_clock' = t
         /\ SeededDraw(0, random_days)
         /\ det_tables' = [det_tables EXCEPT ![det_run].temp_rel =
                             <<[IsID |-> 1, Synniaeg |-> (t - MaxAdultAge) + random_days,
                                Aadress |-> det_tables[det_run].aadress[1].AdrID]>>]
    /\ pc' = "det_isik"
    /\ UNCHANGED <<det_run, main_vars, death_vars, kod_vars, as_vars, audit_vars,
                   doc_vars, err_vars>>

\* isik.py:44-49, 59, 88-89, 141-166, called without a seed (main.py:85):
\* random goes on in its stream for chance_muudeti_all; the first name comes
\* from Faker.
DetIsik ==
    /\ pc = "det_isik"
    /\ \E chance_muudeti \in RawValues, eesnimi \in FakerNames :
         /\ SeededDraw(stream_pos, chance_muudeti)
         /\ det_tables' = [det_tables EXCEPT ![det_run].isik =
                             <<[IsID |-> 1,
                                isSynniaeg |-> det_tables[det_run].temp_rel[1].Synniaeg,
                                IsEesnimi |-> eesnimi,
                                LoodiKpv |-> det_tables[det_run].temp_rel[1].Synniaeg]>>]
    /\ pc' = "det_return"
    /\ UNCHANGED <<det_run, wall_clock, main_vars, death_vars, kod_vars, as_vars,
                   audit_vars, doc_vars, err_vars>>

\* main.py:146-156: the tables are returned; main.py:241-247: the second run
\* starts with the same seed.
DetReturn ==
    /\ pc = "det_return"
    /\ IF det_run = 1
       THEN det_run' = 2 /\ pc' = "det_aadress"
       ELSE det_run' = det_run /\ pc' = "det_done"
    /\ UNCHANGED <<seeded_stream, stream_pos, wall_clock, det_tables, main_vars,
                   death_vars, kod_vars, as_vars, audit_vars, doc_vars, err_vars>>

InitDet ==
    /\ pc = "det_aadress"
    /\ TablesIdle
    /\ DeathIdle
    /\ KodIdle
    /\ AsIdle
    /\ AuditIdle
    /\ DocIdle
    /\ ErrIdle
    /\ det_run = 1
    /\ seeded_stream = <<>>
    /\ stream_pos = 0
    /\ wall_clock = now
    /\ det_tables = [r \in 1..2 |-> EmptyTables]

NextDet ==
    \/ DetAadress
    \/ DetRelationships
    \/ DetIsik
    \/ DetReturn

SpecDet == InitDet /\ [][NextDet]_vars

\* C12: two runs of generate_tables with the same seed and the same input
\* tables return the same tables.
C12_SameSeedSameTables ==
    pc = "det_done" => det_tables[1] = det_tables[2]

(***************************************************************************)
(* SpecFamily: generate_isikuaadress on one family of two adults and one   *)
(* child, the child naming none, one or both of the adults as parents.     *)
(***************************************************************************)
NFamily == 3

InitFamily ==
    /\ MoreIdle
    /\ pc = "ia_family"
    /\ n_people = NFamily
    /\ \E surm \in [1..NFamily -> NullableDates] :
         \E vanemad \in {<<>>, <<1>>, <<2>>, <<1, 2>>} :
            df_people = [p \in 1..NFamily |->
                           IF p < NFamily
                           THEN PersonRow(Taiskasvanu, <<>>, surm[p], 1)
                           ELSE PersonRow(Laps, vanemad, surm[p], 1)]
    /\ couples = <<>>
    /\ possible_addresses = <<1>>
    /\ arrival_domain = NullableDates
    /\ \E S \in SUBSET (1..NFamily) : final_address_map = [p \in S |-> FinalAdr]
    /\ families = FamilyIds(df_people)
    /\ group = <<>>
    /\ todo = <<>>
    /\ family_arrival = None
    /\ family_departure = None
    /\ person_history_map = <<>>
    /\ all_records = <<>>
    /\ iadr_counter = 1
    /\ doc_id_counter = 1
    /\ dropped = {}
    /\ copied_from = <<>>
    /\ df_history = <<>>

SpecFamily == InitFamily /\ [][NextIsikuaadress]_vars

\* The (address, start, end) values of a timeline, in order.
Intervals(timeline) ==
    [i \in DOMAIN timeline |->
        <<timeline[i].AdrID, timeline[i].IAdrKehtibAlatesKpv, timeline[i].IAdrKehtibKuniKpv>>]

\* The parents of a child whose stored timeline is not empty.
ParentsWithTimeline(child_id) ==
    {p \in Range(df_people[child_id].Vanemad) :
        p \in DOMAIN person_history_map /\ person_history_map[p] # <<>>}

\* The step of the child loop for the child at the head of todo.
ChildStep ==
    /\ pc = "ia_build"
    /\ todo # <<>>
    /\ df_people[Head(todo)].VanuseStaatus = Laps
    /\ todo' = Tail(todo)

\* C21 as claimed: the step that gives a child its timeline stores the death
\* truncation of a timeline that has the (address, start, end) values of a
\* non-empty timeline of one of the child's parents, new interval ids and the
\* child as owner, whenever a parent has a non-empty timeline; the child gets
\* an empty copy only when no parent has one.
C21_ChildCopiesParent ==
    [][ChildStep =>
         LET child_id == Head(todo)
             child_timeline == person_history_map'[child_id]
         IN  ParentsWithTimeline(child_id) # {} =>
               \E p \in ParentsWithTimeline(child_id) :
                  /\ iadr_counter' = iadr_counter + Len(person_history_map[p])
                  /\ Intervals(child_timeline) =
                        Intervals(adjust_timeline_for_death(df_kodifikaator,
                                     person_history_map[p], df_people[child_id].Surmaaeg))
                  /\ \A i \in DOMAIN child_timeline :
                        /\ child_timeline[i].IsID = child_id
                        /\ child_timeline[i].IAdrID >= iadr_counter
                        /\ child_timeline[i].IAdrID < iadr_counter'
      ]_vars

\* The latest intervals of person p in a table: those no other interval of p
\* starts after.
LatestRows(table, p) ==
    {r \in RowsOf(table, p) :
        \A q \in RowsOf(table, p) : q.IAdrKehtibAlatesKpv <= r.IAdrKehtibAlatesKpv}

\* C22 as claimed: when the family has a departure date, the latest interval
\* that each of its members keeps ends on or before that date.
C22_LastEndsByDeparture ==
    (FamilySettled /\ family_departure # None) =>
        \A p \in Range(group) :
            \A r \in LatestRows(Table, p) :
                /\ r.IAdrKehtibKuniKpv # None
                /\ r.IAdrKehtibKuniKpv <= family_departure

\* C23: in the result of generate_temp_relatsionships child c is in the child
\* list of P exactly when P is in the parent list of c; a parent list has at
\* most two entries, all adults; the two parents of a child are partners of
\* each other.
C23_ParentChildConsistent ==
    RelResult =>
        /\ \A P \in Persons : \A c \in Persons :
             (c \in Range(df_people[P].Lapsed)) <=> (P \in Range(df_people[c].Vanemad))
        /\ \A c \in Persons :
             LET parents == df_people[c].Vanemad
             IN  /\ Len(parents) <= 2
                 /\ \A k \in DOMAIN parents :
                       /\ parents[k] \in Persons
                       /\ df_people[parents[k]].VanuseStaatus = Taiskasvanu
                 /\ Len(parents) = 2 =>
                       /\ parents[1] # parents[2]
                       /\ df_people[parents[1]].PartneriID = parents[2]
                       /\ df_people[parents[2]].PartneriID = parents[1]

\* A result with a child of a couple, listed by both partners.
C23_Witness ==
    /\ RelResult
    /\ \E c \in Persons :
         /\ Len(df_people[c].Vanemad) = 2
         /\ \A k \in 1..2 : df_people[df_people[c].Vanemad[k]].Lapsed = <<c>>

(***************************************************************************)
(* SpecLong: generate_isikuaadress called with max_address_count one       *)
(* higher, so that a timeline can have a first, a middle and a last        *)
(* interval.                                                               *)
(***************************************************************************)
BuildAdultLong == BuildAdultUpTo(max_address_count + 1)

NextLong ==
    \/ NextFamily
    \/ SkipAdult
    \/ BuildAdultLong
    \/ CopyChild
    \/ ApplyFamilyBounds
    \/ RemoveInvalid
    \/ AssignDatesFinal
    \/ Collect
    \/ Renumber

SpecLong == InitIsikuaadress /\ [][NextLong]_vars

\* isikuaadress.py:271: the test of step 5 for a record to be skipped.
Invalid(rec) ==
    rec.IAdrKehtibKuniKpv # None /\ rec.IAdrKehtibAlatesKpv > rec.IAdrKehtibKuniKpv

\* C24: in the returned table two intervals of a person never start on the same
\* day, and an interval that is followed by a later one of the same person ends
\* the day before the next one starts; when step 5 runs, no interval between
\* the first and the last of a stored timeline is invalid.
C24_Contiguous ==
    /\ Returned =>
         \A p \in Persons :
            \A r1 \in RowsOf(df_history, p) : \A r2 \in RowsOf(df_history, p) :
               /\ (r1 # r2) => r1.IAdrKehtibAlatesKpv # r2.IAdrKehtibAlatesKpv
               /\ (/\ r1.IAdrKehtibAlatesKpv < r2.IAdrKehtibAlatesKpv
                   /\ ~ \E r3 \in RowsOf(df_history, p) :
                          /\ r1.IAdrKehtibAlatesKpv < r3.IAdrKehtibAlatesKpv
                          /\ r3.IAdrKehtibAlatesKpv < r2.IAdrKehtibAlatesKpv)
                    => (/\ r1.IAdrKehtibKuniKpv # None
                        /\ r2.IAdrKehtibAlatesKpv = r1.IAdrKehtibKuniKpv + 1)
    /\ pc = "ia_remove" =>
         \A pid \in DOMAIN person_history_map :
            \A i \in DOMAIN person_history_map[pid] :
               (1 < i /\ i < Len(person_history_map[pid]))
                  => ~Invalid(person_history_map[pid][i])

\* A returned table in which one person keeps three intervals and another kept
\* only the middle one of three, the first lost to the family arrival and the
\* last to the family departure.
C24_Witness ==
    /\ Returned
    /\ \E p \in Persons : Cardinality(RowsOf(df_history, p)) = 3
    /\ \E q \in dropped :
         /\ Cardinality(RowsOf(all_records, q)) = 1
         /\ \E r \in RowsOf(all_records, q) :
               /\ r.IAdrID = iadr_counter - 2
               /\ r.IAdrKehtibAlatesKpv = family_arrival
               /\ r.IAdrKehtibKuniKpv = family_departure

\* C25 as claimed: every returned interval with a MuudetiKpv has
\* LoodiKpv <= MuudetiKpv <= KustutatiKpv when a KustutatiKpv was drawn and
\* LoodiKpv <= MuudetiKpv <= latest_date otherwise.
C25_ModifiedWithinBounds ==
    (Returned /\ audit_columns) =>
        \A i \in DOMAIN df_history :
            df_history[i].MuudetiKpv # None =>
               /\ df_history[i].LoodiKpv <= df_history[i].MuudetiKpv
               /\ df_history[i].MuudetiKpv <=
                     (IF df_history[i].KustutatiKpv # None
                      THEN df_history[i].KustutatiKpv ELSE latest_date)

\* The columns of a row that steps 2 to 5 write.
Core(row) ==
    [f \in {"IAdrID", "AdrID", "IsID", "IAdrKehtibAlatesKpv", "IAdrKehtibKuniKpv",
            "KdIDAadressiLiik", "KdIDAadressiStaatus", "DokIDAlus", "IAdrIDJargmine",
            "DokIDLopuAlus"} |-> row[f]]

\* C26: while the timelines of a family are built, bounded and cleaned no row
\* carries an audit timestamp; the step that assigns the timestamps leaves the
\* ids, owner, address, start, end, status, kind and links of every row as they
\* were; every returned interval has earliest_date <= LoodiKpv <= start.
C26_AuditAfterDates ==
    /\ [](/\ pc \in {"ia_build", "ia_remove", "ia_audit"} =>
               \A pid \in DOMAIN person_history_map :
                  \A i \in DOMAIN person_history_map[pid] :
                     "LoodiKpv" \notin DOMAIN person_history_map[pid][i]
          /\ (Returned /\ audit_columns) =>
               \A i \in DOMAIN df_history :
                  /\ earliest_date <= df_history[i].LoodiKpv
                  /\ df_history[i].LoodiKpv <= df_history[i].IAdrKehtibAlatesKpv)
    /\ [][pc = "ia_audit" =>
            /\ DOMAIN person_history_map' = DOMAIN person_history_map
            /\ \A pid \in DOMAIN person_history_map :
                  /\ Len(person_history_map'[pid]) = Len(person_history_map[pid])
                  /\ \A i \in DOMAIN person_history_map[pid] :
                        Core(person_history_map'[pid][i]) = Core(person_history_map[pid][i])
       ]_vars

\* A returned interval whose start the family arrival raised above earliest_date
\* and that was created on its final start date, of a person who lost a later
\* interval in step 5.
C26_Witness ==
    /\ Returned
    /\ audit_columns
    /\ \E i \in DOMAIN df_history :
         /\ df_history[i].IsID \in dropped
         /\ df_history[i].IAdrKehtibAlatesKpv = family_arrival
         /\ family_arrival > earliest_date
         /\ df_history[i].LoodiKpv = family_arrival

(***************************************************************************)
(* SpecRun: error_generation.run(selected_tests)                           *)
(***************************************************************************)
MaxSelected == 3
MaxTestId == 5

\* main.py:96-101: the registered case ids, in the order of the dict.
CASES == <<1, 2, 3, 4>>

\* main.py:35-92: the files each case function saves, in order.
SavesOf(t) ==
    CASE t = 1 -> <<"05_isikuaadress.csv", "09_dokument.csv", "08_isikudokument.csv">>
      [] t = 2 -> <<"09_dokument.csv">>
      [] t = 3 -> <<"06_isik.csv", "05_isikuaadress.csv", "09_dokument.csv">>
      [] t = 4 -> <<"07_kodakondsus.csv", "09_dokument.csv", "08_isikudokument.csv">>

Unsorted(xs) == xs

\* Python's sorted() on a list of integers: ascending, repeated values kept.
RECURSIVE sorted(_)
sorted(xs) ==
    IF xs = <<>> THEN <<>>
    ELSE LET least == Min(Range(xs))
             first == Min({i \in DOMAIN xs : xs[i] = least})
         IN  <<least>> \o sorted([i \in 1..(Len(xs) - 1) |->
                                    IF i < first THEN xs[i] ELSE xs[i + 1]])

\* main.py:114-118: the selection is completed and checked.
RunCheck ==
    /\ pc = "run_start"
    /\ LET selected == IF selected_tests = <<>> THEN sorted(CASES) ELSE selected_tests
           invalid == SelectSeq(selected, LAMBDA t : t \notin Range(CASES))
       IN  /\ selected_tests' = selected
           /\ IF invalid # <<>>
              THEN pc' = "ValueError" /\ run_queue' = <<>>
              ELSE pc' = "run_loop" /\ run_queue' = sorted(selected)
    /\ UNCHANGED <<run_log, csv_saves, main_vars, death_vars, kod_vars, as_vars,
                   audit_vars, doc_vars, det_vars>>

\* main.py:119-121: one case function is called and saves its files.
RunCase ==
    /\ pc = "run_loop"
    /\ run_queue # <<>>
    /\ run_log' = Append(run_log, Head(run_queue))
    /\ csv_saves' = csv_saves \o SavesOf(Head(run_queue))
    /\ run_queue' = Tail(run_queue)
    /\ UNCHANGED <<pc, selected_tests, main_vars, death_vars, kod_vars, as_vars,
                   audit_vars, doc_vars, det_vars>>

\* main.py:122: the loop is over.
RunDone ==
    /\ pc = "run_loop"
    /\ run_queue = <<>>
    /\ pc' = "run_done"
    /\ UNCHANGED <<err_vars, main_vars, death_vars, kod_vars, as_vars,
                   audit_vars, doc_vars, det_vars>>

\* run is called with None or an empty list (both read as <<>>) or with a list
\* of up to MaxSelected integers in 0..MaxTestId.
InitRun ==
    /\ pc = "run_start"
    /\ TablesIdle
    /\ DeathIdle
    /\ KodIdle
    /\ AsIdle
    /\ AuditIdle
    /\ DocIdle
    /\ DetIdle
    /\ selected_tests \in UNION {[1..n -> 0..MaxTestId] : n \in 0..MaxSelected}
    /\ run_queue = <<>>
    /\ run_log = <<>>
    /\ csv_saves = <<>>

NextRun ==
    \/ RunCheck
    \/ RunCase
    \/ RunDone

SpecRun == InitRun /\ [][NextRun]_vars

\* How often the id t occurs in a list.
Count(xs, t) == Cardinality({i \in DOMAIN xs : xs[i] = t})

\* C27: when a requested id is not registered, run ends in ValueError with no
\* case called and no file saved; otherwise, when run is over, the cases called
\* are the requested ids (each as often as it was listed) in ascending order;
\* an empty selection is replaced by all registered ids.
C27_RunSelection ==
    /\ [](/\ (\E i \in DOMAIN selected_tests : selected_tests[i] \notin Range(CASES)) =>
               /\ pc \in {"run_start", "ValueError"}
               /\ run_log = <<>>
               /\ csv_saves = <<>>
          /\ pc = "ValueError" =>
               \E i \in DOMAIN selected_tests : selected_tests[i] \notin Range(CASES)
          /\ pc = "run_done" =>
               /\ \A t \in 0..MaxTestId : Count(run_log, t) = Count(selected_tests, t)
               /\ \A i \in DOMAIN run_log : \A j \in DOMAIN run_log :
                     i < j => run_log[i] <= run_log[j])
    /\ [][(pc = "run_start" /\ selected_tests = <<>>) =>
             /\ pc' = "run_loop"
             /\ \A t \in Range(CASES) : Count(selected_tests', t) = 1
             /\ Len(selected_tests') = Len(CASES)
       ]_vars

\* A finished run of a selection that was listed out of order, with one id
\* listed twice, after which three cases have saved their files.
C27_Witness ==
    /\ pc = "run_done"
    /\ selected_tests = <<3, 1, 3>>
    /\ run_log = <<1, 3, 3>>
    /\ Len(csv_saves) = 9

\* C28: the interval id counter and the document id counter of
\* generate_isikuaadress are always equal, and in the returned table every row
\* has DokIDAlus = IAdrID (an id of the table) and DokIDLopuAlus =
\* IAdrIDJargmine (both null or the same id).
C28_DocIdsFollowIntervalIds ==
    /\ iadr_counter = doc_id_counter
    /\ Returned =>
         \A i \in DOMAIN df_history :
            /\ df_history[i].DokIDAlus # None
            /\ df_history[i].DokIDAlus = df_history[i].IAdrID
            /\ df_history[i].DokIDLopuAlus = df_history[i].IAdrIDJargmine

\* A returned table of an adult and a child copied from the adult, renumbered
\* after a first interval was removed, in which the child keeps a linked row.
C28_Witness ==
    /\ Returned
    /\ \E i \in DOMAIN all_records : all_records[i].IAdrID > Len(all_records)
    /\ \E k \in DOMAIN df_history :
         /\ df_history[k].DokIDLopuAlus # None
         /\ df_people[df_history[k].IsID].VanuseStaatus = Laps

\* The adults with status Abielus, and those of them without a partner.
MarriedAdults ==
    {p \in Persons : df_people[p].VanuseStaatus = Taiskasvanu
                     /\ df_people[p].Suhteseis = Abielus}

Unmatched == {p \in MarriedAdults : ~has_partner(df_people, p)}

C30_DepartedFamilyClosed ==
    (FamilySettled /\ family_departure # None) =>
        \A p \in Range(group) : OpenRows(Table, p) = {}

\* A returned family of two living persons with a departure date, an adult and
\* a child copied from the adult, each with an interval that ends on that date.
C30_Witness ==
    /\ Returned
    /\ family_departure # None
    /\ Len(group) = 2
    /\ \A p \in Range(group) :
         /\ df_people[p].Surmaaeg = None
         /\ \E r \in RowsOf(df_history, p) : r.IAdrKehtibKuniKpv = family_departure
    /\ \E p \in Range(group) : df_people[p].VanuseStaatus = Laps
====
